---- MODULE Spec2Model ----
(***************************************************************************)
(* A model of the browser-automation agent: the orchestrator               *)
(* (GenericUIAgent.execute), the session resource (BrowserManager), the    *)
(* provider adapters (GmailAdapter, OutlookAdapter) and the fallback-      *)
(* selector primitives (click_element, type_text, execute_action_plan).    *)
(*                                                                         *)
(* The specifications of the module:                                       *)
(*   Spec      the orchestrator: runs of execute() on one agent            *)
(*   SpecClick click_element / type_text applied to drawn inputs           *)
(*   SpecPlan  execute_action_plan stepping through a drawn plan           *)
(*   SpecPrimitive  one call of a session primitive on a drawn page        *)
(*   SpecInterpret  interpret_instruction / _fallback_parsing applied to   *)
(*                  drawn instructions and model responses                 *)
(*   SpecLog   the calls on one agent that read or write its action log    *)
(*   SpecSend  send_email of an adapter applied to drawn tasks              *)
(*   SpecMain  the CLI main command on drawn environments and run outcomes  *)
(*   SpecDom   runs of execute_with_dom_analysis() on one agent             *)
(*   SpecOverlap  two execute() coroutines on one agent, interleaved at the  *)
(*                points where they suspend                                *)
(*   SpecRetry  _retry_action on drawn arguments and attempt outcomes        *)
(*   SpecConfig  Config's provider queries and GenericUIAgent(config)       *)
(***************************************************************************)
EXTENDS Integers, Sequences, FiniteSets, TLC

\* ------------------------------------------------------------------ bounds

\* execute() calls made on the one agent of a behaviour
MaxRuns == 2
\* longest fallback_selectors list handed to click_element / type_text
MaxFallbacks == 2
\* longest action plan handed to execute_action_plan
MaxPlanLen == 5
\* most words in an instruction handed to the task interpreter
MaxWords == 3
\* most words in the content of a model response
MaxContentWords == 6
\* calls made on one agent and its ActionLogger
MaxLogCalls == 3
\* largest timeout, in seconds, passed to wait_for_element
MaxTimeout == 2
\* largest max_retries passed to _retry_action and largest config.retry_attempts
MaxRetries == 3

\* ------------------------------------------------------------------ values

\* Python's None
None == "None"

Range(s) == {s[i] : i \in DOMAIN s}

Last(s) == s[Len(s)]

\* ------------------------------------------------------------ configuration

\* Config.get_available_providers: gmail first, then outlook
ProviderOrder == <<"gmail", "outlook">>

\* the provider lists get_available_providers can return
AvailableLists == {<<>>, <<"gmail">>, <<"outlook">>, <<"gmail", "outlook">>}

\* Config.is_provider_configured
is_provider_configured(av, p) == p \in Range(av)

\* ---------------------------------------------------------------- variables

VARIABLES
    \* --- Config
    avail,                \* get_available_providers() of the agent's config
    screenshot_on_error,  \* config.screenshot_on_error
    save_html_on_error,   \* config.save_html_on_error
    \* --- GenericUIAgent
    runs,                 \* execute() calls started so far
    pc,                   \* position of the running execute()
    phases,               \* phases the running execute() has entered, in order
    task,                 \* task_info of the running execute(), or None
    provider,             \* the selected provider name, or None
    warned,               \* warnings logged by _select_provider in this run
    actions,              \* agent.action_logger.actions: the records appended since
                          \* the running execute() began (the list is never cleared;
                          \* the records of earlier runs precede these)
    browser_manager,      \* agent.browser_manager: a session id, or None
    providers,            \* agent.providers: provider name -> session id its adapter holds
    pending,              \* the value execute() is about to return (before finally)
    result,               \* the value the caller received, or None
    escaped,              \* an exception that reached the caller of execute(), or None
    thrown,               \* the message of the exception a phase of this run let escape, or None
    \* --- BrowserManager instances (session id = number of the run that built it)
    bm,                   \* session id -> its handles and counters
    stopCalls,            \* stop() invocations made during the running execute()
    startOk,              \* start() of this run's session returned without error
    \* --- ProviderAdapter.execute_task
    apc,                  \* position inside execute_task
    ai,                   \* index into the running step table
    loginRet,             \* what login() returned in this run: "True", "False", or None
    sendInvoked,          \* send_email() was invoked in this run
    ops,                  \* operations the adapter issued to a session in this run
    \* --- click_element / type_text (SpecClick)
    ck,
    \* --- execute_action_plan (SpecPlan)
    pl,
    \* --- one call of a session primitive (SpecPrimitive)
    pr,
    \* --- one call of the task interpreter (SpecInterpret)
    ip,
    \* --- the ActionLogger of an agent and the values handed out (SpecLog)
    lg,
    \* --- one call of send_email on an adapter (SpecSend)
    sd,
    \* --- one invocation of the CLI main command (SpecMain)
    cli,
    \* --- two execute() calls on one agent that overlap (SpecOverlap)
    ov,
    \* --- one _retry_action call
    rt,
    \* --- a Config and the construction of an agent on it
    cf

configVars == <<avail, screenshot_on_error, save_html_on_error>>
agentVars == <<runs, pc, phases, task, provider, warned, actions, browser_manager,
               providers, pending, result, escaped, thrown>>
sessionVars == <<bm, stopCalls, startOk>>
adapterVars == <<apc, ai, loginRet, sendInvoked, ops>>
vars == <<configVars, agentVars, sessionVars, adapterVars, ck, pl, pr, ip, lg, sd, cli, ov, rt, cf>>

\* ------------------------------------------------------- task interpretation

\* absent task_info / result (a record, so that it compares with records)
NoTask == [absent |-> TRUE]
NoResult == [absent |-> TRUE]
\* agent.browser_manager = None, and "no adapter cached" in agent.providers
NoSession == 0

\* text is a sequence of characters (one-character strings)

\* the character classes of the pattern
\*   \b[A-Za-z0-9._%+-]+@[A-Za-z0-9.-]+\.[A-Z|a-z]{2,}\b
Letters ==
    {"a", "b", "c", "d", "e", "f", "g", "h", "i", "j", "k", "l", "m"}
    \cup {"n", "o", "p", "q", "r", "s", "t", "u", "v", "w", "x", "y", "z"}
    \cup {"A", "B", "C", "D", "E", "F", "G", "H", "I", "J", "K", "L", "M"}
    \cup {"N", "O", "P", "Q", "R", "S", "T", "U", "V", "W", "X", "Y", "Z"}

Digits == {"0", "1", "2", "3", "4", "5", "6", "7", "8", "9"}

\* \w, the characters \b tells from the others
WordChars == Letters \cup Digits \cup {"_"}

LocalChars == Letters \cup Digits \cup {".", "_", "%", "+", "-"}

DomainChars == Letters \cup Digits \cup {".", "-"}

\* [A-Z|a-z]: the bar is a member of the class
TldChars == Letters \cup {"|"}

\* \b between s[i - 1] and s[i]: a word character on exactly one side
Boundary(s, i) ==
    LET before == i > 1 /\ s[i - 1] \in WordChars
        after == i <= Len(s) /\ s[i] \in WordChars IN
    before # after

\* the last index of the run of characters of class cls that starts at i
\* (i - 1 when s[i] is not in cls)
RECURSIVE RunEnd(_, _, _)
RunEnd(s, i, cls) ==
    IF i <= Len(s) /\ s[i] \in cls THEN RunEnd(s, i + 1, cls) ELSE i - 1

\* the ends of the matches of the pattern that start at i: the local part is
\* the whole run before "@"; the domain stops before a "." that two or more
\* TLD characters follow, up to a word boundary
MatchEnds(s, i) ==
    LET k == RunEnd(s, i, LocalChars) + 1 IN
    IF ~(Boundary(s, i) /\ k > i /\ k <= Len(s) /\ s[k] = "@") THEN {}
    ELSE LET m == RunEnd(s, k + 1, DomainChars) IN
         { t \in (k + 4)..Len(s) :
             \E e \in (k + 1)..(m - 1) :
                /\ s[e + 1] = "."
                /\ t >= e + 3
                /\ t <= RunEnd(s, e + 2, TldChars)
                /\ Boundary(s, t + 1) }

\* the match the regex engine reports at i: both quantifiers are greedy, so it
\* is the longest one (0: no match starts at i)
MatchAt(s, i) ==
    LET ends == MatchEnds(s, i) IN
    IF ends = {} THEN 0 ELSE CHOOSE t \in ends : \A u \in ends : u <= t

\* re.findall(pattern, s) from position i on: the non-overlapping matches, left
\* to right, each as often as it occurs
RECURSIVE findall(_, _)
findall(s, i) ==
    IF i > Len(s) THEN <<>>
    ELSE LET t == MatchAt(s, i) IN
         IF t = 0 THEN findall(s, i + 1)
         ELSE <<SubSeq(s, i, t)>> \o findall(s, t + 1)

AliceAddress ==
    <<"a", "l", "i", "c", "e", "@", "e", "x", "a", "m", "p", "l", "e", ".",
      "c", "o", "m">>

DemoAddress ==
    <<"d", "e", "m", "o", "@", "e", "x", "a", "m", "p", "l", "e", ".", "c",
      "o", "m">>

\* "This is a test email from the automation system"
MockContent ==
    <<"T", "h", "i", "s", " ", "i", "s", " ", "a", " ", "t", "e", "s", "t",
      " ", "e", "m", "a", "i", "l", " ", "f", "r", "o", "m", " ", "t", "h",
      "e", " ", "a", "u", "t", "o", "m", "a", "t", "i", "o", "n", " ", "s",
      "y", "s", "t", "e", "m">>

\* "send email to alice@example.com saying 'Hello'"
ScenarioInstruction ==
    <<"s", "e", "n", "d", " ", "e", "m", "a", "i", "l", " ", "t", "o", " ",
      "a", "l", "i", "c", "e", "@", "e", "x", "a", "m", "p", "l", "e", ".",
      "c", "o", "m", " ", "s", "a", "y", "i", "n", "g", " ", "'", "H", "e",
      "l", "l", "o", "'">>

\* "say hello to everybody"
PlainInstruction ==
    <<"s", "a", "y", " ", "h", "e", "l", "l", "o", " ", "t", "o", " ", "e",
      "v", "e", "r", "y", "b", "o", "d", "y">>

\* instructions handed to execute()
Instructions == {ScenarioInstruction, PlainInstruction}

\* "Test email from automation"
MockSubject ==
    <<"T", "e", "s", "t", " ", "e", "m", "a", "i", "l", " ", "f", "r", "o",
      "m", " ", "a", "u", "t", "o", "m", "a", "t", "i", "o", "n">>

\* "Message from automation system"
FallbackSubject ==
    <<"M", "e", "s", "s", "a", "g", "e", " ", "f", "r", "o", "m", " ", "a",
      "u", "t", "o", "m", "a", "t", "i", "o", "n", " ", "s", "y", "s", "t",
      "e", "m">>

\* a JSON object is a record of the keys it has; its "recipients" is a list
\* ([list |-> ...]) or a string ([text |-> ...]); the other texts are character
\* sequences, the enumerated values strings

\* LLMService._get_mock_response: the answer _call_llm gives as the code stands
MockResponse ==
    [kind |-> "json",
     object |-> [task_type |-> "email", action |-> "send",
                 recipients |-> [list |-> <<DemoAddress>>], subject |-> MockSubject,
                 content |-> MockContent, attachments |-> <<>>,
                 provider_preference |-> "auto", urgency |-> "medium",
                 additional_context |-> <<>>]]

\* what the model call yields: a JSON object (the mock response, and objects
\* that give the three fields the orchestrator and the adapters read), JSON
\* that is not an object, text that is not JSON, or an exception of the call
LLMResponses ==
    { [kind |-> "json",
       object |-> [provider_preference |-> p, recipients |-> [list |-> r], content |-> c]] :
        p \in {"auto", "gmail", "outlook", "yahoo"},
        r \in {<<>>, <<DemoAddress>>},
        c \in {<<>>, MockContent} }
    \cup { MockResponse, [kind |-> "not_object"], [kind |-> "badjson"],
           [kind |-> "exception"] }

\* the keys of a task
FieldNames ==
    {"task_type", "action", "recipients", "subject", "content", "attachments",
     "provider_preference", "urgency", "additional_context"}

\* the defaults of _validate_task_info
Defaults ==
    [task_type |-> "email", action |-> "send", recipients |-> <<>>, subject |-> <<>>,
     content |-> <<>>, attachments |-> <<>>, provider_preference |-> "auto",
     urgency |-> "medium", additional_context |-> <<>>]

\* the characters str.split() splits at (the texts of the model hold no other
\* white space than the blank)
Whitespace == {" "}

\* the last index of the word that starts at i
RECURSIVE WordEnd(_, _)
WordEnd(s, i) ==
    IF i <= Len(s) /\ s[i] \notin Whitespace THEN WordEnd(s, i + 1) ELSE i - 1

\* s.split() from position i on: the maximal runs of characters that are not
\* white space
RECURSIVE split(_, _)
split(s, i) ==
    IF i > Len(s) THEN <<>>
    ELSE IF s[i] \in Whitespace THEN split(s, i + 1)
    ELSE <<SubSeq(s, i, WordEnd(s, i))>> \o split(s, WordEnd(s, i) + 1)

\* " ".join(words)
RECURSIVE join(_)
join(words) ==
    IF words = <<>> THEN <<>>
    ELSE IF Len(words) = 1 THEN words[1]
    ELSE words[1] \o <<" ">> \o join(Tail(words))

\* mutant: the subject is not cut
_generate_subject_uncut(content) ==
    LET words == split(content, 1) IN
    join(SubSeq(words, 1, IF Len(words) < 5 THEN Len(words) ELSE 5))

\* LLMService._generate_subject: content.split()[:5] joined by blanks, and
\* subject[:47] + "..." when that is longer than 50 characters
_generate_subject(content) ==
    LET words == split(content, 1)
        subject == join(SubSeq(words, 1, IF Len(words) < 5 THEN Len(words) ELSE 5)) IN
    IF Len(subject) > 50 THEN SubSeq(subject, 1, 47) \o <<".", ".", ".">> ELSE subject

\* LLMService._validate_task_info: a default for every key the object lacks,
\* the addresses of a recipients string, a subject made from the content when
\* there is none
_validate_task_info(task_info) ==
    LET filled(key) == IF key \in DOMAIN task_info THEN task_info[key] ELSE Defaults[key]
        recipients == IF "recipients" \notin DOMAIN task_info THEN Defaults.recipients
                      ELSE IF "text" \in DOMAIN task_info.recipients
                      THEN findall(task_info.recipients.text, 1)
                      ELSE task_info.recipients.list IN
    [task_type |-> filled("task_type"),
     action |-> filled("action"),
     recipients |-> recipients,
     subject |-> IF filled("subject") = <<>> /\ filled("content") # <<>>
                 THEN _generate_subject(filled("content"))
                 ELSE filled("subject"),
     content |-> filled("content"),
     attachments |-> filled("attachments"),
     provider_preference |-> filled("provider_preference"),
     urgency |-> filled("urgency"),
     additional_context |-> filled("additional_context")]

\* LLMService._fallback_parsing
_fallback_parsing(instruction) ==
    [task_type |-> "email",
     action |-> "send",
     recipients |-> findall(instruction, 1),
     subject |-> FallbackSubject,
     content |-> instruction,
     attachments |-> <<>>,
     provider_preference |-> "auto",
     urgency |-> "medium",
     additional_context |-> <<>>]

\* the exception the try body of interpret_instruction raises for a response
\* (None: it returns): _call_llm raises, json.loads raises JSONDecodeError, or
\* _validate_task_info raises TypeError on JSON that is not an object
BodyRaises(response) ==
    CASE response.kind = "json"       -> None
      [] response.kind = "badjson"    -> "JSONDecodeError"
      [] response.kind = "not_object" -> "TypeError"
      [] OTHER                        -> "APIError"

\* mutant: only the JSONDecodeError clause is there
interpret_instruction_json_only(instruction, response) ==
    IF BodyRaises(response) = None
    THEN [returns |-> _validate_task_info(response.object), raises |-> None]
    ELSE IF BodyRaises(response) = "JSONDecodeError"
    THEN [returns |-> _fallback_parsing(instruction), raises |-> None]
    ELSE [returns |-> [absent |-> TRUE], raises |-> BodyRaises(response)]

\* LLMService.interpret_instruction: what it returns and what it raises; the
\* clause for JSONDecodeError and the clause for Exception both fall back
interpret_instruction(instruction, response) ==
    IF BodyRaises(response) = None
    THEN [returns |-> _validate_task_info(response.object), raises |-> None]
    ELSE IF BodyRaises(response) = "JSONDecodeError"
    THEN [returns |-> _fallback_parsing(instruction), raises |-> None]
    ELSE [returns |-> _fallback_parsing(instruction), raises |-> None]

\* GenericUIAgent._interpret_instruction: an exception of the service becomes None
_interpret_instruction(instruction, response) ==
    LET r == interpret_instruction(instruction, response) IN
    IF r.raises = None THEN r.returns ELSE NoTask

\* separator.join(items)
RECURSIVE join_by(_, _)
join_by(separator, items) ==
    IF items = <<>> THEN <<>>
    ELSE IF Len(items) = 1 THEN items[1]
    ELSE items[1] \o separator \o join_by(separator, Tail(items))

\* mutant: the addresses are joined by a comma alone
_format_recipients_no_blank(recipients) ==
    IF "text" \in DOMAIN recipients THEN recipients.text
    ELSE join_by(<<",">>, recipients.list)

\* ProviderAdapter._format_recipients: a string as it is, a list joined by ", "
\* (the argument is [text |-> ...] or [list |-> ...], as in a JSON object)
_format_recipients(recipients) ==
    IF "text" \in DOMAIN recipients THEN recipients.text
    ELSE join_by(<<",", " ">>, recipients.list)

\* mutant: only the recipients are required
ValidTaskRecipientsOnly(t) == t.recipients # <<>>

\* ProviderAdapter._validate_task_info
ValidTask(t) == t.recipients # <<>> /\ t.content # <<>>

\* --------------------------------------------------------- provider selection

\* mutant: "auto" skips the check for an empty provider list
_select_provider_unchecked(t, av) ==
    IF t.provider_preference = "auto"
    THEN [selected |-> "gmail", warnings |-> <<>>]
    ELSE [selected |-> IF av # <<>> THEN av[1] ELSE "gmail", warnings |-> <<>>]

\* mutant: "auto" takes the last configured provider
_select_provider_auto_last(t, av) ==
    IF t.provider_preference = "auto"
    THEN [selected |-> IF av = <<>> THEN None ELSE av[Len(av)], warnings |-> <<>>]
    ELSE IF is_provider_configured(av, t.provider_preference)
    THEN [selected |-> t.provider_preference, warnings |-> <<>>]
    ELSE [selected |-> None, warnings |-> <<>>]

\* mutant: an unknown preference is treated like "auto"
_select_provider_unknown_as_auto(t, av) ==
    LET preference == t.provider_preference IN
    IF preference \in {"gmail", "outlook"}
    THEN IF is_provider_configured(av, preference)
         THEN [selected |-> preference, warnings |-> <<>>]
         ELSE [selected |-> IF av # <<>> THEN av[1] ELSE None,
               warnings |-> <<"Preferred provider not configured">>]
    ELSE [selected |-> IF av = <<>> THEN None
                       ELSE IF "gmail" \in Range(av) THEN "gmail" ELSE av[1],
          warnings |-> <<>>]

\* GenericUIAgent._select_provider: the provider returned (or None) and the
\* warnings it logged
_select_provider(t, av) ==
    LET preference == t.provider_preference IN
    IF preference = "auto"
    THEN [selected |-> IF av = <<>> THEN None
                       ELSE IF "gmail" \in Range(av) THEN "gmail" ELSE av[1],
          warnings |-> <<>>]
    ELSE IF preference \in {"gmail", "outlook"}
    THEN IF is_provider_configured(av, preference)
         THEN [selected |-> preference, warnings |-> <<>>]
         ELSE [selected |-> IF av # <<>> THEN av[1] ELSE None,
               warnings |-> <<"Preferred provider not configured">>]
    ELSE [selected |-> None, warnings |-> <<>>]

\* ------------------------------------------------------------------ results

\* the record ActionLogger.log_action appends to the log of its owner: the
\* ActionLogger of the agent (<<"agent">>) or of a session (<<"session", id>>);
\* action is the text logged, as a tuple of its parts
Logged(owner, action, success) == [logger |-> owner, action |-> action, success |-> success]

\* mutant: the newest record is put first
log_action_newest_first(log, action, success) ==
    <<Logged(<<"agent">>, <<action>>, success)>> \o log

\* ActionLogger.log_action of the agent's logger: self.actions.append(...)
log_action(log, action, success) ==
    Append(log, Logged(<<"agent">>, <<action>>, success))

\* agent.action_logger.log_action(action, True)
AgentLogs(log, action) == log_action(log, action, TRUE)

ErrorKeys == {"success", "error", "duration", "actions", "warnings"}

\* time.time() - start_time: the time a run took so far, in a unit that makes
\* it 1; a dictionary that has no "duration" holds NoDuration
Elapsed == 1
NoDuration == -1

\* mutant: the message is not repeated among the warnings
_create_error_result_no_warning(error_message) ==
    [success |-> FALSE, error |-> error_message, provider |-> None,
     warnings |-> <<>>, actions |-> actions, task_type |-> None,
     duration |-> 0, keys |-> ErrorKeys]

\* GenericUIAgent._create_error_result
_create_error_result(error_message) ==
    [success |-> FALSE, error |-> error_message, provider |-> None,
     warnings |-> <<error_message>>, actions |-> actions, task_type |-> None,
     duration |-> 0, keys |-> ErrorKeys]

\* the dictionary built by the except clause of execute()
ExceptionResult(message) ==
    [success |-> FALSE, error |-> message, provider |-> None,
     warnings |-> <<"Task execution failed with exception">>, actions |-> actions,
     task_type |-> None, duration |-> Elapsed, keys |-> ErrorKeys]

\* mutant: the except clause re-raises instead of returning a result
TopLevelHandlerReraises(message) ==
    [returns |-> [absent |-> TRUE], raises |-> message]

\* the except clause of execute(): what execute() returns and what it raises
TopLevelHandler(message) ==
    [returns |-> ExceptionResult(message), raises |-> None]

\* mutant: the task type is not copied from the task
AssembleResultUnknownType(res) ==
    [res EXCEPT !.keys = @ \cup {"duration", "task_type", "actions"},
                !.task_type = "unknown",
                !.duration = Elapsed,
                !.actions = actions]

\* execute() step 5: duration, task_type and actions are set on the result
AssembleResult(res) ==
    [res EXCEPT !.keys = @ \cup {"duration", "task_type", "actions"},
                !.task_type = task.task_type,
                !.duration = Elapsed,
                !.actions = actions]

\* ----------------------------------------------------------- session resource

Sessions == 1..MaxRuns

\* BrowserManager.__init__: no handle yet
NewSession ==
    [constructed |-> TRUE, playwright |-> "none", browser |-> "none",
     context |-> "none", page |-> "none", stops |-> 0]

NotConstructed == [NewSession EXCEPT !.constructed = FALSE]

HandleNames == {"playwright", "browser", "context", "page"}

\* the statement of start() that raises ("none": start() returns normally)
StartFailures == {"none", "playwright", "launch", "context", "page", "timeouts"}

\* how many handles start() has assigned when that statement raises
Acquired(f) ==
    CASE f = "playwright" -> 0
      [] f = "launch"     -> 1
      [] f = "context"    -> 2
      [] f = "page"       -> 3
      [] OTHER            -> 4

\* BrowserManager.start with failure point f
start(s, f) ==
    [s EXCEPT !.playwright = IF Acquired(f) >= 1 THEN "open" ELSE @,
              !.browser    = IF Acquired(f) >= 2 THEN "open" ELSE @,
              !.context    = IF Acquired(f) >= 3 THEN "open" ELSE @,
              !.page       = IF Acquired(f) >= 4 THEN "open" ELSE @]

\* the order in which stop() closes the handles
StopOrder == <<"page", "context", "browser", "playwright">>

StopIndex(h) == CHOOSE i \in 1..Len(StopOrder) : StopOrder[i] = h

\* the close() calls stop() can make on s, one of which may raise
StopOutcomes(s) == {"none"} \cup {h \in HandleNames : s[h] # "none"}

\* the state of handle h after stop() in which closing r raised ("none": no raise):
\* the handles before r are closed, r is in the state its failed close() left it
\* in ("close_raised": open or closed), the ones after r are left as they were
ClosedBy(s, h, r) ==
    IF s[h] = "none" THEN "none"
    ELSE IF r = "none" \/ StopIndex(h) < StopIndex(r) THEN "closed"
    ELSE IF h = r THEN "close_raised"
    ELSE s[h]

\* BrowserManager.stop: the except clause swallows the exception of close()
stop(s, r) ==
    [s EXCEPT !.page = ClosedBy(s, "page", r),
              !.context = ClosedBy(s, "context", r),
              !.browser = ClosedBy(s, "browser", r),
              !.playwright = ClosedBy(s, "playwright", r),
              !.stops = @ + 1]

\* ---------------------------------------------------------- provider adapters

\* mutant: Outlook's login fails when the "stay signed in" prompt is not there
LoginChoreographyDismissRequired(p) ==
    IF p = "gmail"
    THEN << [op |-> "type",  target |-> "email_field",    optional |-> FALSE],
            [op |-> "click", target |-> "email_next",     optional |-> FALSE],
            [op |-> "type",  target |-> "password_field", optional |-> FALSE],
            [op |-> "click", target |-> "password_next",  optional |-> FALSE] >>
    ELSE << [op |-> "type",  target |-> "email_field",    optional |-> FALSE],
            [op |-> "click", target |-> "next_button",    optional |-> FALSE],
            [op |-> "type",  target |-> "password_field", optional |-> FALSE],
            [op |-> "click", target |-> "submit_button",  optional |-> FALSE],
            [op |-> "click", target |-> "stay_signed_in", optional |-> FALSE] >>

\* mutant: the password is entered before the email
LoginChoreographyPasswordFirst(p) ==
    << [op |-> "type",  target |-> "password_field", optional |-> FALSE],
       [op |-> "click", target |-> IF p = "gmail" THEN "password_next" ELSE "submit_button",
        optional |-> FALSE],
       [op |-> "type",  target |-> "email_field",    optional |-> FALSE],
       [op |-> "click", target |-> IF p = "gmail" THEN "email_next" ELSE "next_button",
        optional |-> FALSE] >>

\* _handle_gmail_login / _handle_outlook_login: the primitive calls in order;
\* the result of an optional step is ignored
LoginChoreography(p) ==
    IF p = "gmail"
    THEN << [op |-> "type",  target |-> "email_field",    optional |-> FALSE],
            [op |-> "click", target |-> "email_next",     optional |-> FALSE],
            [op |-> "type",  target |-> "password_field", optional |-> FALSE],
            [op |-> "click", target |-> "password_next",  optional |-> FALSE] >>
    ELSE << [op |-> "type",  target |-> "email_field",    optional |-> FALSE],
            [op |-> "click", target |-> "next_button",    optional |-> FALSE],
            [op |-> "type",  target |-> "password_field", optional |-> FALSE],
            [op |-> "click", target |-> "submit_button",  optional |-> FALSE],
            [op |-> "click", target |-> "stay_signed_in", optional |-> TRUE] >>

\* mutant: the subject is filled before the recipients
SendSequenceSubjectFirst(p) ==
    << [op |-> "click", target |-> "compose_button", error |-> "Failed to click compose button"],
       [op |-> "type",  target |-> "subject_field",  error |-> "Failed to fill subject field"],
       [op |-> "type",  target |-> "to_field",       error |-> "Failed to fill recipient field"],
       [op |-> "type",  target |-> "content_field",  error |-> "Failed to fill content field"],
       [op |-> "click", target |-> "send_button",    error |-> "Failed to click send button"] >>

\* send_email of both adapters after validation and navigation: the session
\* operations in order, each with the error of the failure result it returns
\* (a failing keyboard press raises, and the except clause returns str(e))
SendSequence(p) ==
    IF p = "gmail"
    THEN << [op |-> "click", target |-> "compose_button", error |-> "Failed to click compose button"],
            [op |-> "type",  target |-> "to_field",       error |-> "Failed to fill recipient field"],
            [op |-> "type",  target |-> "subject_field",  error |-> "Failed to fill subject field"],
            [op |-> "type",  target |-> "content_field",  error |-> "Failed to fill content field"],
            [op |-> "click", target |-> "send_button",    error |-> "Failed to click send button"] >>
    ELSE << [op |-> "click", target |-> "compose_button", error |-> "Failed to click compose button"],
            [op |-> "type",  target |-> "to_field",       error |-> "Failed to fill recipient field"],
            [op |-> "press", target |-> "Tab",            error |-> "keyboard press failed"],
            [op |-> "type",  target |-> "subject_field",  error |-> "Failed to fill subject field"],
            [op |-> "press", target |-> "Tab",            error |-> "keyboard press failed"],
            [op |-> "type",  target |-> "content_field",  error |-> "Failed to fill content field"],
            [op |-> "click", target |-> "send_button",    error |-> "Failed to click send button"] >>

\* the failure dictionaries of send_email name the provider in "Failed to navigate to ..."
NavigateError(p) ==
    IF p = "gmail" THEN "Failed to navigate to Gmail" ELSE "Failed to navigate to Outlook"

\* a result as execute_task returns it: send_email's dictionary plus "provider"
\* (a field that is not among the keys is absent from the dictionary)
TaskResult(ok, err, p) ==
    [success |-> ok, error |-> err, provider |-> p, warnings |-> <<>>, actions |-> <<>>,
     task_type |-> None, duration |-> NoDuration,
     keys |-> {"success", "provider"} \cup (IF ok THEN {"message"} ELSE {"error"})]

\* the session the adapter in use drives: the one it was constructed with
Sess == providers[provider]

\* the outcomes a page operation on session s can have: it can succeed only
\* on a page that is (or may still be) open; on a missing or closed page the
\* call raises
PageOutcomes(s) ==
    IF bm[s].page \in {"open", "close_raised"} THEN {TRUE, FALSE} ELSE {FALSE}

\* the adapter calls op on its session, and the call succeeds (ok) or fails
Issued(op, target, ok) ==
    Append(ops, [sess |-> Sess, op |-> op, target |-> target, ok |-> ok])

Issue(op, target) == Issued(op, target, TRUE)

\* ProviderAdapter._take_error_screenshot: take_screenshot is called when the
\* configuration asks for it, and yields a path on an open page
WithErrorScreenshot(log) ==
    IF screenshot_on_error
    THEN Append(log, [sess |-> Sess, op |-> "screenshot", target |-> "error",
                      ok |-> bm[Sess].page = "open"])
    ELSE log

\* ------------------------------------------------------------- the orchestrator

Enter(phase) == pc' = phase /\ phases' = Append(phases, phase)

\* a BrowserManager object is reachable while the agent or a cached adapter
\* refers to it; an unreachable one is gone for the program
Reachable(s) ==
    s = browser_manager \/ \E p \in DOMAIN providers : providers[p] = s

\* execute() is called on the idle agent
Execute ==
    /\ pc \in {"Idle", "Done"}
    /\ runs < MaxRuns
    /\ runs' = runs + 1
    /\ pc' = "Interpreting"
    /\ phases' = <<"Interpreting">>
    /\ task' = NoTask
    /\ provider' = None
    /\ warned' = <<>>
    /\ actions' = <<>>
    /\ pending' = NoResult
    /\ result' = NoResult
    /\ escaped' = None
    /\ thrown' = None
    /\ stopCalls' = 0
    /\ startOk' = FALSE
    /\ apc' = "idle"
    /\ ai' = 0
    /\ loginRet' = None
    /\ sendInvoked' = FALSE
    /\ ops' = <<>>
    /\ bm' = [s \in Sessions |-> IF Reachable(s) THEN bm[s] ELSE NotConstructed]
    /\ UNCHANGED <<configVars, browser_manager, providers, ck, pl, pr, ip, lg, sd, cli, ov, rt, cf>>

\* step 1: _interpret_instruction; "if not task_info" returns the error result
InterpretInstruction ==
    /\ pc = "Interpreting"
    /\ \E instruction \in Instructions, response \in LLMResponses :
         LET task_info == _interpret_instruction(instruction, response) IN
         /\ task' = task_info
         /\ IF task_info = NoTask
            THEN /\ pending' = _create_error_result("Failed to interpret instruction")
                 /\ actions' = actions
                 /\ Enter("Cleanup")
            ELSE /\ pending' = pending
                 /\ actions' = AgentLogs(actions, "Instruction interpreted")
                 /\ Enter("SelectingProvider")
    /\ UNCHANGED <<configVars, runs, provider, warned, browser_manager, providers,
                   result, escaped, thrown, sessionVars, adapterVars, ck, pl, pr, ip, lg, sd, cli, ov, rt, cf>>

\* where execute() goes after _select_provider returned `selected`
AfterSelection(selected) ==
    IF selected = None THEN "Cleanup" ELSE "SessionStarting"

\* step 2: _select_provider; "if not provider" returns the error result
SelectProvider ==
    /\ pc = "SelectingProvider"
    /\ LET sel == _select_provider(task, avail) IN
         /\ provider' = sel.selected
         /\ warned' = warned \o sel.warnings
         /\ actions' = IF sel.selected = None THEN actions
                       ELSE AgentLogs(actions, "Provider selected")
         /\ Enter(AfterSelection(sel.selected))
         /\ pending' = IF sel.selected = None
                       THEN _create_error_result("No suitable provider available")
                       ELSE pending
    /\ UNCHANGED <<configVars, runs, task, browser_manager, providers,
                   result, escaped, thrown, sessionVars, adapterVars, ck, pl, pr, ip, lg, sd, cli, ov, rt, cf>>

\* the message of the exception start() raises at failure point f
StartError(f) ==
    CASE f = "ctor"       -> "cannot create screenshots directory"
      [] f = "playwright" -> "playwright failed to start"
      [] f = "launch"     -> "browser failed to launch"
      [] f = "context"    -> "new_context failed"
      [] f = "page"       -> "new_page failed"
      [] OTHER            -> "set_default_timeout failed"

\* mutant: the except clause logs the failure and does not re-raise
InitializeOutcomeSwallowed(f) == [raised |-> FALSE, message |-> None]

\* _initialize_browser: what reaches execute() when start() (or the constructor)
\* raised at f: the except clause logs and re-raises
InitializeOutcome(f) ==
    IF f = "none" THEN [raised |-> FALSE, message |-> None]
    ELSE [raised |-> TRUE, message |-> StartError(f)]

\* step 3: _initialize_browser; browser_manager is assigned before start()
InitializeBrowser ==
    /\ pc = "SessionStarting"
    /\ \E f \in StartFailures \cup {"ctor"} :
         LET out == InitializeOutcome(f)
             handled == TopLevelHandler(out.message) IN
         /\ IF f = "ctor"
            THEN UNCHANGED <<browser_manager, bm>>
            ELSE /\ browser_manager' = runs
                 /\ bm' = [bm EXCEPT ![runs] = start(NewSession, f)]
         /\ IF out.raised
            THEN /\ thrown' = out.message
                 /\ pending' = handled.returns
                 /\ escaped' = handled.raises
                 /\ Enter("Cleanup")
                 /\ UNCHANGED <<startOk, apc, actions>>
            ELSE /\ startOk' = (f = "none")
                 /\ actions' = AgentLogs(actions, "Browser initialized")
                 /\ apc' = "get_adapter"
                 /\ Enter("Executing")
                 /\ UNCHANGED <<pending, escaped, thrown>>
    /\ UNCHANGED <<configVars, runs, task, provider, warned, providers, result,
                   stopCalls, ai, loginRet, sendInvoked, ops, ck, pl, pr, ip, lg, sd, cli, ov, rt, cf>>

\* _get_provider_adapter: a cached adapter is returned as it is, a new one is
\* constructed with the agent's current browser_manager and cached
GetProviderAdapter ==
    /\ pc = "Executing" /\ apc = "get_adapter"
    /\ providers' = IF providers[provider] # NoSession THEN providers
                    ELSE [providers EXCEPT ![provider] = browser_manager]
    /\ apc' = "login_navigate"
    /\ UNCHANGED <<configVars, runs, pc, phases, task, provider, warned, actions,
                   browser_manager, pending, result, escaped, thrown, sessionVars, ai,
                   loginRet, sendInvoked, ops, ck, pl, pr, ip, lg, sd, cli, ov, rt, cf>>

\* _execute_task returned res: execute() completes the result and returns it
ReturnTask(res) ==
    /\ pending' = AssembleResult(res)
    /\ apc' = "idle"
    /\ ai' = 0
    /\ Enter("Cleanup")

\* mutant: the result of login() is not checked
AfterLoginUnchecked(ret) == "send_email"

\* execute_task after login() returned ret
AfterLogin(ret) ==
    IF ret THEN "send_email" ELSE "return_login_failed"

\* login() returned ret, having issued log
LoginReturns(ret, log) ==
    /\ loginRet' = (IF ret THEN "True" ELSE "False")
    /\ ops' = log
    /\ IF AfterLogin(ret) = "send_email"
       THEN /\ apc' = "send_validate"
            /\ ai' = 0
            /\ UNCHANGED <<pc, phases, pending>>
       ELSE ReturnTask(TaskResult(FALSE, "Login failed", provider))

adapterFrame == <<configVars, runs, task, provider, warned, actions, browser_manager,
                  providers, result, escaped, thrown, sessionVars, ck, pl, pr, ip, lg, sd, cli, ov, rt, cf>>

\* login(): navigate to the service
LoginNavigate ==
    /\ pc = "Executing" /\ apc = "login_navigate"
    /\ \E ok \in PageOutcomes(Sess) :
         IF ok
         THEN /\ ops' = Issue("navigate", "service_url")
              /\ apc' = "login_probe"
              /\ UNCHANGED <<pc, phases, pending, ai, loginRet>>
         ELSE LoginReturns(FALSE, Issued("navigate", "service_url", FALSE))
    /\ UNCHANGED <<adapterFrame, sendInvoked>>

\* mutant: the probe is taken for successful whatever it finds
_is_already_logged_in_always(found) == TRUE

\* _is_already_logged_in: "element is not None" for the element query_selector
\* found for the compose button (False when the query raised)
_is_already_logged_in(found) == found

\* login(): _is_already_logged_in probes for the compose button
LoginProbe ==
    /\ pc = "Executing" /\ apc = "login_probe"
    /\ \E found \in PageOutcomes(Sess) :
         IF _is_already_logged_in(found)
         THEN LoginReturns(TRUE, Issued("query", "compose_button", found))
         ELSE /\ ops' = Issued("query", "compose_button", FALSE)
              /\ apc' = "login_steps"
              /\ ai' = 1
              /\ UNCHANGED <<pc, phases, pending, loginRet>>
    /\ UNCHANGED <<adapterFrame, sendInvoked>>

\* login(): one primitive call of the credential choreography
LoginStep ==
    /\ pc = "Executing" /\ apc = "login_steps"
    /\ LET step == LoginChoreography(provider)[ai] IN
       \E ok \in PageOutcomes(Sess) :
         IF ok \/ step.optional
         THEN /\ ops' = Issued(step.op, step.target, ok)
              /\ IF ai < Len(LoginChoreography(provider))
                 THEN ai' = ai + 1 /\ apc' = apc
                 ELSE ai' = 0 /\ apc' = "login_verify"
              /\ UNCHANGED <<pc, phases, pending, loginRet>>
         ELSE LoginReturns(FALSE, WithErrorScreenshot(Issued(step.op, step.target, FALSE)))
    /\ UNCHANGED <<adapterFrame, sendInvoked>>

\* login(): the probe after the credentials decides the login
LoginVerify ==
    /\ pc = "Executing" /\ apc = "login_verify"
    /\ \E found \in PageOutcomes(Sess) :
         IF _is_already_logged_in(found)
         THEN LoginReturns(TRUE, Issued("query", "compose_button", found))
         ELSE LoginReturns(FALSE, WithErrorScreenshot(Issued("query", "compose_button", FALSE)))
    /\ UNCHANGED <<adapterFrame, sendInvoked>>

\* send_email(): validation, then the page's url decides whether to navigate;
\* reading the url of a missing page raises
SendValidate ==
    /\ pc = "Executing" /\ apc = "send_validate"
    /\ sendInvoked' = TRUE
    /\ IF ~ValidTask(task)
       THEN /\ ReturnTask(TaskResult(FALSE, "Invalid task information", provider))
            /\ UNCHANGED ops
       ELSE IF bm[Sess].page = "none"
       THEN /\ ReturnTask(TaskResult(FALSE, "NoneType has no attribute url", provider))
            /\ ops' = WithErrorScreenshot(ops)
       ELSE \E onService \in BOOLEAN :
              /\ apc' = IF onService THEN "send_steps" ELSE "send_navigate"
              /\ ai' = IF onService THEN 1 ELSE 0
              /\ UNCHANGED <<pc, phases, pending, ops>>
    /\ UNCHANGED <<adapterFrame, loginRet>>

\* send_email(): navigate to the service when the page is elsewhere
SendNavigate ==
    /\ pc = "Executing" /\ apc = "send_navigate"
    /\ \E ok \in PageOutcomes(Sess) :
         /\ ops' = Issued("navigate", "service_url", ok)
         /\ IF ok
            THEN /\ apc' = "send_steps"
                 /\ ai' = 1
                 /\ UNCHANGED <<pc, phases, pending>>
            ELSE ReturnTask(TaskResult(FALSE, NavigateError(provider), provider))
    /\ UNCHANGED <<adapterFrame, loginRet, sendInvoked>>

\* send_email(): one session operation of the compose-and-send sequence
SendStep ==
    /\ pc = "Executing" /\ apc = "send_steps"
    /\ LET step == SendSequence(provider)[ai] IN
       \E ok \in PageOutcomes(Sess) :
         IF ok
         THEN /\ ops' = Issue(step.op, step.target)
              /\ IF ai < Len(SendSequence(provider))
                 THEN /\ ai' = ai + 1
                      /\ UNCHANGED <<pc, phases, pending, apc>>
                 ELSE ReturnTask(TaskResult(TRUE, None, provider))
         ELSE /\ ops' = IF step.op = "press"
                        THEN WithErrorScreenshot(Issued(step.op, step.target, FALSE))
                        ELSE Issued(step.op, step.target, FALSE)
              /\ ReturnTask(TaskResult(FALSE, step.error, provider))
    /\ UNCHANGED <<adapterFrame, loginRet, sendInvoked>>

\* mutant: the cleanup never finds a session to stop
HoldsSessionNever(b) == FALSE

\* _cleanup_browser: "if self.browser_manager"
HoldsSession(b) == b # NoSession

\* the finally clause: _cleanup_browser stops the session the agent holds, if
\* any, and forgets it; then the caller receives what execute() returned
CleanupBrowser ==
    /\ pc = "Cleanup"
    /\ IF HoldsSession(browser_manager)
       THEN \E r \in StopOutcomes(bm[browser_manager]) :
              /\ bm' = [bm EXCEPT ![browser_manager] = stop(@, r)]
              /\ stopCalls' = stopCalls + 1
              /\ browser_manager' = NoSession
              /\ actions' = AgentLogs(actions, "Browser cleanup completed")
       ELSE UNCHANGED <<bm, stopCalls, browser_manager, actions>>
    /\ result' = pending
    /\ Enter("Done")
    /\ UNCHANGED <<configVars, runs, task, provider, warned, providers, pending,
                   escaped, thrown, startOk, adapterVars, ck, pl, pr, ip, lg, sd, cli, ov, rt, cf>>

\* ------------------------------------------------------- Spec: the orchestrator

ckIdle == [call |-> "none"]
plIdle == [state |-> "none"]
prIdle == [state |-> "none"]
ipIdle == [state |-> "none"]
lgIdle == [state |-> "none"]
sdIdle == [state |-> "none"]
cliIdle == [state |-> "none"]
ovIdle == [state |-> "none"]
rtIdle == [state |-> "none"]
cfIdle == [state |-> "none"]

\* the agent after GenericUIAgent.__init__, before any execute()
AgentConstructed ==
    /\ runs = 0
    /\ pc = "Idle"
    /\ phases = <<>>
    /\ task = NoTask
    /\ provider = None
    /\ warned = <<>>
    /\ actions = <<>>
    /\ browser_manager = NoSession
    /\ providers = [p \in {"gmail", "outlook"} |-> NoSession]
    /\ pending = NoResult
    /\ result = NoResult
    /\ escaped = None
    /\ thrown = None
    /\ bm = [s \in Sessions |-> NotConstructed]
    /\ stopCalls = 0
    /\ startOk = FALSE
    /\ apc = "idle"
    /\ ai = 0
    /\ loginRet = None
    /\ sendInvoked = FALSE
    /\ ops = <<>>

Init ==
    /\ avail \in AvailableLists
    /\ screenshot_on_error \in BOOLEAN
    /\ save_html_on_error = TRUE
    /\ AgentConstructed
    /\ cf = cfIdle
    /\ rt = rtIdle
    /\ ov = ovIdle
    /\ cli = cliIdle
    /\ sd = sdIdle
    /\ ck = ckIdle
    /\ pl = plIdle
    /\ pr = prIdle
    /\ ip = ipIdle
    /\ lg = lgIdle

Next ==
    \/ Execute
    \/ InterpretInstruction
    \/ SelectProvider
    \/ InitializeBrowser
    \/ GetProviderAdapter
    \/ LoginNavigate
    \/ LoginProbe
    \/ LoginStep
    \/ LoginVerify
    \/ SendValidate
    \/ SendNavigate
    \/ SendStep
    \/ CleanupBrowser

Spec == Init /\ [][Next]_vars

\* ------------------------------------------- click_element and type_text

\* candidate selectors, and what the page does with one attempt on a candidate:
\* "ok", or the text of the exception wait_for_selector / click / fill raises
Selectors == {"#a", "#b"}
AttemptOutcomes == {"ok", "Timeout 5000ms exceeded", "Element is not attached"}

\* the fallback_selectors argument: omitted (the default None) or a list
Omitted == [given |-> FALSE, list |-> <<>>]

FallbackLists ==
    {Omitted} \cup { [given |-> TRUE, list |-> l] :
                        l \in UNION { [1..n -> Selectors] : n \in 0..MaxFallbacks } }

\* "fallback_selectors or []"
OrEmpty(fallback_selectors) ==
    IF fallback_selectors.given THEN fallback_selectors.list ELSE <<>>

\* mutant: the primary selector is retried once more as a last resort
CandidatesWithRetry(selector, fallback_selectors) ==
    <<selector>> \o OrEmpty(fallback_selectors) \o <<selector>>

\* selectors_to_try = [selector] + (fallback_selectors or [])
Candidates(selector, fallback_selectors) ==
    <<selector>> \o OrEmpty(fallback_selectors)

\* mutant: the 0-based index is compared with the length, which it never equals
IsLastAttemptNever(i, selectors_to_try) == FALSE

\* mutant: every failure is taken for the last one
IsLastAttemptAlways(i, selectors_to_try) == TRUE

\* "if i == len(selectors_to_try) - 1" (i counted from 1 here)
IsLastAttempt(i, selectors_to_try) == i = Len(selectors_to_try)

\* the ActionRecord log_action appends for a primitive
ActionRecord(action, sel, success, details) ==
    [action |-> action, target |-> sel, success |-> success, details |-> details]

SuccessAction(kind) ==
    IF kind = "click" THEN "Clicked element" ELSE "Typed text in element"

FailureAction(kind) ==
    IF kind = "click" THEN "Click element" ELSE "Type text in element"

\* the for loop of click_element (kind "click") and type_text (kind "type") from
\* candidate i on: the value returned, the candidates attempted, the
\* ActionRecords appended and the candidate that was clicked / filled (or None)
RECURSIVE TrySelectors(_, _, _, _)
TrySelectors(kind, selectors_to_try, outcomes, i) ==
    IF i > Len(selectors_to_try)
    THEN [ret |-> FALSE, attempts |-> <<>>, records |-> <<>>, hit |-> None]
    ELSE IF outcomes[i] = "ok"
    THEN [ret |-> TRUE,
          attempts |-> <<selectors_to_try[i]>>,
          records |-> <<ActionRecord(SuccessAction(kind), selectors_to_try[i], TRUE, None)>>,
          hit |-> selectors_to_try[i]]
    ELSE IF IsLastAttempt(i, selectors_to_try)
    THEN [ret |-> FALSE,
          attempts |-> <<selectors_to_try[i]>>,
          records |-> <<ActionRecord(FailureAction(kind), selectors_to_try[i], FALSE,
                                     outcomes[i])>>,
          hit |-> None]
    ELSE LET rest == TrySelectors(kind, selectors_to_try, outcomes, i + 1) IN
         [rest EXCEPT !.attempts = <<selectors_to_try[i]>> \o @]

\* BrowserManager.click_element
click_element(selector, fallback_selectors, outcomes) ==
    TrySelectors("click", Candidates(selector, fallback_selectors), outcomes, 1)

\* mutant: the text is typed after what the field holds
fill_appending(content, text) == Append(content, text)

\* page.fill(sel, text): the field holds the text and nothing else; the content
\* of a field is the sequence of the texts entered in it
fill(content, text) == <<text>>

\* BrowserManager.type_text
type_text(selector, text, fallback_selectors, outcomes) ==
    TrySelectors("type", Candidates(selector, fallback_selectors), outcomes, 1)

\* ------------------------------------------------------------------ SpecClick

\* the text argument of type_text
Texts == {"t1", "t2"}

\* no second call of type_text was made
NoSecondCall == [made |-> FALSE]

\* a call of click_element / type_text about to be made: its arguments, the
\* page's answer to each attempt the call can make, and the content of the fields
ClickCalls ==
    { [state |-> "called", call |-> k, selector |-> sel, fallback_selectors |-> fb,
       text |-> IF k = "type" THEN t ELSE None,
       outcomes |-> o,
       fields |-> [f \in Selectors |-> old],
       ret |-> FALSE, attempts |-> <<>>, records |-> <<>>, hit |-> None,
       again |-> NoSecondCall] :
        k \in {"click", "type"}, sel \in Selectors, fb \in FallbackLists,
        old \in {<<>>, <<"old">>}, t \in Texts,
        o \in UNION { [1..n -> AttemptOutcomes] : n \in 1..(MaxFallbacks + 2) } }

InitClick ==
    /\ avail = <<"gmail">>
    /\ screenshot_on_error = TRUE
    /\ save_html_on_error = TRUE
    /\ AgentConstructed
    /\ cf = cfIdle
    /\ rt = rtIdle
    /\ ov = ovIdle
    /\ cli = cliIdle
    /\ sd = sdIdle
    /\ ck \in { c \in ClickCalls :
                  /\ Len(c.outcomes) = Len(Candidates(c.selector, c.fallback_selectors))
                  /\ c.call = "click" => c.fields = [f \in Selectors |-> <<>>] }
    /\ pl = plIdle
    /\ pr = prIdle
    /\ ip = ipIdle
    /\ lg = lgIdle

\* the call of click_element runs to its return
ClickElement ==
    /\ ck.state = "called" /\ ck.call = "click"
    /\ LET r == click_element(ck.selector, ck.fallback_selectors, ck.outcomes) IN
       ck' = [ck EXCEPT !.state = "returned", !.ret = r.ret,
                        !.attempts = r.attempts, !.records = r.records]
    /\ UNCHANGED <<configVars, agentVars, sessionVars, adapterVars, pl, pr, ip, lg, sd, cli, ov, rt, cf>>

\* the call of type_text runs to its return
TypeText ==
    /\ ck.state = "called" /\ ck.call = "type"
    /\ LET r == type_text(ck.selector, ck.text, ck.fallback_selectors, ck.outcomes) IN
       ck' = [ck EXCEPT !.state = "returned", !.ret = r.ret,
                        !.attempts = r.attempts, !.records = r.records, !.hit = r.hit,
                        !.fields = IF r.hit = None THEN @
                                   ELSE [@ EXCEPT ![r.hit] = fill(@, ck.text)]]
    /\ UNCHANGED <<configVars, agentVars, sessionVars, adapterVars, pl, pr, ip, lg, sd, cli, ov, rt, cf>>

\* type_text is called again with the same selector and fallbacks and a text of
\* its own, on the page the first call left, and runs to its return
TypeTextAgain ==
    /\ ck.state = "returned" /\ ck.call = "type"
    /\ \E text \in Texts, outcomes \in [DOMAIN ck.outcomes -> AttemptOutcomes] :
         LET r == type_text(ck.selector, text, ck.fallback_selectors, outcomes) IN
         ck' = [ck EXCEPT !.state = "reentered",
                          !.again = [made |-> TRUE, text |-> text, outcomes |-> outcomes,
                                     ret |-> r.ret, attempts |-> r.attempts,
                                     records |-> r.records, hit |-> r.hit],
                          !.fields = IF r.hit = None THEN @
                                     ELSE [@ EXCEPT ![r.hit] = fill(@, text)]]
    /\ UNCHANGED <<configVars, agentVars, sessionVars, adapterVars, pl, pr, ip, lg, sd, cli, ov, rt, cf>>

NextClick == ClickElement \/ TypeText \/ TypeTextAgain

SpecClick == InitClick /\ [][NextClick]_vars

\* ---------------------------------------------------- execute_action_plan

\* the kinds of step a plan is drawn from: the five known actions, an action
\* execute_action_plan does not know, and a click whose fallback_actions is null
\* (building its fallback selector list raises)
StepCatalog ==
    << [action |-> "navigate", target |-> "https://gmail.com", fallback_actions |-> <<>>, malformed |-> FALSE],
       [action |-> "click",    target |-> "#a", fallback_actions |-> <<"#b">>, malformed |-> FALSE],
       [action |-> "type",     target |-> "#a", fallback_actions |-> <<>>,     malformed |-> FALSE],
       [action |-> "wait",     target |-> "#a", fallback_actions |-> <<>>,     malformed |-> FALSE],
       [action |-> "verify",   target |-> "#b", fallback_actions |-> <<>>,     malformed |-> FALSE],
       [action |-> "hover",    target |-> "#a", fallback_actions |-> <<>>,     malformed |-> FALSE],
       [action |-> "click",    target |-> "#b", fallback_actions |-> <<>>,     malformed |-> TRUE] >>

\* the plan of n steps, numbered 1..n, that starts at catalog entry o
PlanFrom(n, o) ==
    [i \in 1..n |->
        LET c == StepCatalog[((o + i - 2) % Len(StepCatalog)) + 1] IN
        [step |-> i, action |-> c.action, target |-> c.target, value |-> "t1",
         fallback_actions |-> c.fallback_actions, malformed |-> c.malformed]]

Plans == { PlanFrom(n, o) : n \in 0..MaxPlanLen, o \in 1..Len(StepCatalog) }

\* results = {"success": True, "actions": [], "errors": [], "screenshots": []}
EmptyResults == [success |-> TRUE, actions |-> <<>>, errors |-> <<>>, screenshots |-> <<>>]

KnownActions == {"navigate", "click", "type", "wait", "verify"}

\* the step raises before any primitive is called: the list comprehension over
\* fallback_actions runs for click and type only
StepRaises(a) == a.malformed /\ a.action \in {"click", "type"}

\* mutant: a step with an unknown action counts as done
StepSuccessesUnknownSucceeds(a) ==
    IF a.action \in {"navigate", "wait", "verify"} THEN {TRUE, FALSE}
    ELSE IF a.action = "click"
    THEN { click_element(a.target, [given |-> TRUE, list |-> a.fallback_actions], o).ret :
             o \in [1..(1 + Len(a.fallback_actions)) -> AttemptOutcomes] }
    ELSE IF a.action = "type"
    THEN { type_text(a.target, a.value, [given |-> TRUE, list |-> a.fallback_actions], o).ret :
             o \in [1..(1 + Len(a.fallback_actions)) -> AttemptOutcomes] }
    ELSE {TRUE}

\* the outcomes of the primitive a step calls: whether it returned true
StepSuccesses(a) ==
    IF a.action \in {"navigate", "wait", "verify"} THEN {TRUE, FALSE}
    ELSE IF a.action = "click"
    THEN { click_element(a.target, [given |-> TRUE, list |-> a.fallback_actions], o).ret :
             o \in [1..(1 + Len(a.fallback_actions)) -> AttemptOutcomes] }
    ELSE IF a.action = "type"
    THEN { type_text(a.target, a.value, [given |-> TRUE, list |-> a.fallback_actions], o).ret :
             o \in [1..(1 + Len(a.fallback_actions)) -> AttemptOutcomes] }
    ELSE {FALSE}

\* the captures made for a failed step: take_screenshot and save_page_html each
\* return a path (pathsOk) or None
Captures(step, pathsOk) ==
    (IF screenshot_on_error /\ pathsOk THEN <<[step |-> step, file |-> "png"]>> ELSE <<>>)
    \o (IF save_html_on_error /\ pathsOk THEN <<[step |-> step, file |-> "html"]>> ELSE <<>>)

\* the capture calls made for a failed step
CaptureCalls(step) ==
    (IF screenshot_on_error THEN <<[step |-> step, op |-> "take_screenshot"]>> ELSE <<>>)
    \o (IF save_html_on_error THEN <<[step |-> step, op |-> "save_page_html"]>> ELSE <<>>)

\* mutant: the loop stops at the first failed step
ContinuesOnlyAfterSuccess(success) == success

\* the for loop goes on to the next action whatever the step's outcome
ContinuesAfter(success) == TRUE

InitPlan ==
    /\ avail = <<"gmail">>
    /\ screenshot_on_error \in BOOLEAN
    /\ save_html_on_error \in BOOLEAN
    /\ AgentConstructed
    /\ cf = cfIdle
    /\ rt = rtIdle
    /\ ov = ovIdle
    /\ cli = cliIdle
    /\ sd = sdIdle
    /\ ck = ckIdle
    /\ pr = prIdle
    /\ ip = ipIdle
    /\ lg = lgIdle
    /\ \E plan \in Plans, pathsOk \in BOOLEAN :
         pl = [state |-> "running", actions |-> plan, idx |-> 1, pathsOk |-> pathsOk,
               results |-> EmptyResults, executed |-> <<>>, outcomes |-> <<>>,
               pageOps |-> <<>>]

\* one iteration of the loop whose body does not raise
PlanStep ==
    /\ pl.state = "running"
    /\ pl.idx <= Len(pl.actions)
    /\ LET a == pl.actions[pl.idx] IN
       /\ ~StepRaises(a)
       /\ \E success \in StepSuccesses(a) :
            pl' = [pl EXCEPT
                     !.idx = IF ContinuesAfter(success) THEN @ + 1 ELSE Len(pl.actions) + 1,
                     !.executed = Append(@, a.step),
                     !.outcomes = Append(@, success),
                     !.pageOps = (IF a.action \in KnownActions
                                  THEN Append(@, [step |-> a.step, op |-> a.action])
                                  ELSE @)
                                 \o (IF success THEN <<>> ELSE CaptureCalls(a.step)),
                     !.results =
                        [success |-> @.success /\ success,
                         actions |-> Append(@.actions,
                                            [step |-> a.step, action |-> a.action,
                                             target |-> a.target, success |-> success]),
                         errors |-> IF success THEN @.errors
                                    ELSE Append(@.errors, [step |-> a.step, kind |-> "failed"]),
                         screenshots |-> IF success THEN @.screenshots
                                         ELSE @.screenshots \o Captures(a.step, pl.pathsOk)]]
    /\ UNCHANGED <<configVars, agentVars, sessionVars, adapterVars, ck, pr, ip, lg, sd, cli, ov, rt, cf>>

\* one iteration of the loop whose body raises: the except clause records it
PlanStepRaises ==
    /\ pl.state = "running"
    /\ pl.idx <= Len(pl.actions)
    /\ LET a == pl.actions[pl.idx] IN
       /\ StepRaises(a)
       /\ pl' = [pl EXCEPT
                   !.idx = IF ContinuesAfter(FALSE) THEN @ + 1 ELSE Len(pl.actions) + 1,
                   !.executed = Append(@, a.step),
                   !.outcomes = Append(@, FALSE),
                   !.results = [@ EXCEPT !.success = FALSE,
                                         !.errors = Append(@, [step |-> a.step,
                                                               kind |-> "exception"])]]
    /\ UNCHANGED <<configVars, agentVars, sessionVars, adapterVars, ck, pr, ip, lg, sd, cli, ov, rt, cf>>

\* "return results" after the loop
PlanReturn ==
    /\ pl.state = "running"
    /\ pl.idx > Len(pl.actions)
    /\ pl' = [pl EXCEPT !.state = "returned"]
    /\ UNCHANGED <<configVars, agentVars, sessionVars, adapterVars, ck, pr, ip, lg, sd, cli, ov, rt, cf>>

NextPlan == PlanStep \/ PlanStepRaises \/ PlanReturn

SpecPlan == InitPlan /\ [][NextPlan]_vars

\* ------------------------------------------------- the session primitives

\* self.page of the BrowserManager a primitive is called on: None (start() was
\* not called or failed early), an open page, or a page that was closed
PageStates == {"none", "open", "closed"}

NoPageError == "'NoneType' object has no attribute"
ClosedPageError == "Target page, context or browser has been closed"
WriteError == "[Errno 13] Permission denied"

\* what a call on self.page does, given what an open page would answer
PageCall(page, outcome) ==
    IF page = "none" THEN NoPageError
    ELSE IF page = "closed" /\ outcome = "ok" THEN ClosedPageError
    ELSE outcome

\* the class of the exception with message e
ExceptionClass(e) ==
    IF e = NoPageError THEN "AttributeError"
    ELSE IF e = WriteError THEN "OSError"
    ELSE "playwright.Error"

\* mutant: the handler names the errors of the browser library only
CatchesPlaywrightOnly(e) == ExceptionClass(e) = "playwright.Error"

\* "except Exception as e": every class above derives from Exception
Catches(e) == ExceptionClass(e) \in {"AttributeError", "OSError", "playwright.Error"}

Primitives ==
    {"navigate", "click_element", "type_text", "wait_for_element",
     "take_screenshot", "save_page_html"}

\* the text of the record a primitive logs on success and on failure
LogText(kind, success) ==
    CASE kind = "navigate"         -> IF success THEN "Navigated to" ELSE "Navigate to"
      [] kind = "click_element"    -> IF success THEN SuccessAction("click") ELSE FailureAction("click")
      [] kind = "type_text"        -> IF success THEN SuccessAction("type") ELSE FailureAction("type")
      [] kind = "wait_for_element" -> IF success THEN "Waited for element" ELSE "Wait for element"
      [] kind = "take_screenshot"  -> IF success THEN "Took screenshot" ELSE "Take screenshot"
      [] OTHER                     -> IF success THEN "Saved HTML" ELSE "Save HTML"

\* what a primitive returns: a bool, or Optional[str] for the two captures
ReturnValue(kind, success) ==
    IF kind \in {"take_screenshot", "save_page_html"}
    THEN (IF success THEN "filepath" ELSE None)
    ELSE (IF success THEN "True" ELSE "False")

\* the error of each statement of the body: all of them are calls on self.page,
\* but for the file write that follows page.content() in save_page_html
Effective(kind, page, outcomes) ==
    [i \in DOMAIN outcomes |->
        IF kind = "save_page_html" /\ i = 2 THEN outcomes[i]
        ELSE PageCall(page, outcomes[i])]

\* the first error among the statements of a try body, or "ok"
FirstError(errs) ==
    IF \A i \in DOMAIN errs : errs[i] = "ok" THEN "ok"
    ELSE errs[CHOOSE i \in DOMAIN errs :
                 errs[i] # "ok" /\ \A j \in 1..(i - 1) : errs[j] = "ok"]

\* navigate, wait_for_element, take_screenshot, save_page_html: one try block
\* around the whole body, whose handler logs the failure and returns
TryBody(kind, target, e) ==
    IF e = "ok"
    THEN [ret |-> ReturnValue(kind, TRUE), raised |-> None,
          records |-> <<ActionRecord(LogText(kind, TRUE), target, TRUE, None)>>]
    ELSE IF Catches(e)
    THEN [ret |-> ReturnValue(kind, FALSE), raised |-> None,
          records |-> <<ActionRecord(LogText(kind, FALSE), target, FALSE, e)>>]
    ELSE [ret |-> None, raised |-> e, records |-> <<>>]

\* click_element / type_text on a page: the loop of TrySelectors, each attempt
\* in its own try block; an error the handler does not catch leaves the call
TryCandidates(kind, selector, fallback_selectors, errs) ==
    LET k == IF kind = "click_element" THEN "click" ELSE "type"
        r == TrySelectors(k, Candidates(selector, fallback_selectors), errs, 1)
        uncaught == {i \in 1..Len(r.attempts) : errs[i] # "ok" /\ ~Catches(errs[i])} IN
    IF uncaught = {}
    THEN [ret |-> ReturnValue(kind, r.ret), raised |-> None, records |-> r.records]
    ELSE [ret |-> None,
          raised |-> errs[CHOOSE i \in uncaught : \A j \in uncaught : i <= j],
          records |-> <<>>]

\* a call of primitive kind on a page
Primitive(kind, page, target, fallback_selectors, outcomes) ==
    LET errs == Effective(kind, page, outcomes) IN
    IF kind \in {"click_element", "type_text"}
    THEN TryCandidates(kind, target, fallback_selectors, errs)
    ELSE TryBody(kind, target, FirstError(errs))

\* the statements that can fail in one call
Statements(kind, fallback_selectors) ==
    IF kind \in {"click_element", "type_text"}
    THEN Len(Candidates("#a", fallback_selectors))
    ELSE IF kind = "save_page_html" THEN 2 ELSE 1

\* what a statement can answer: a file operation fails with an OSError
StatementOutcomes(kind, i) ==
    IF kind = "save_page_html" /\ i = 2 THEN {"ok", WriteError}
    ELSE IF kind = "take_screenshot" THEN AttemptOutcomes \cup {WriteError}
    ELSE AttemptOutcomes

\* wait_for_element's timeout parameter: omitted (the default None) or a
\* number of seconds
NoTimeout == [given |-> FALSE]

Timeouts == {NoTimeout} \cup { [given |-> TRUE, value |-> v] : v \in 0..MaxTimeout }

\* Config.max_wait_time: the default 10, or a value from the environment
DefaultMaxWaitTime == 10

MaxWaitTimes == {DefaultMaxWaitTime, 30}

\* Python's "timeout or max_wait_time": the left operand unless it is falsy
\* (None, 0)
Or(timeout, max_wait_time) ==
    IF timeout.given /\ timeout.value # 0 THEN timeout.value ELSE max_wait_time

\* wait_for_element: timeout_ms = (timeout or self.config.max_wait_time) * 1000
timeout_ms(timeout, max_wait_time) == Or(timeout, max_wait_time) * 1000

\* ---------------------------------------------------------------- SpecPrimitive

\* the arguments a primitive takes: fallback_selectors belongs to click_element
\* and type_text, timeout (and the max_wait_time it falls back to) to
\* wait_for_element
FallbackListsOf(k) ==
    IF k \in {"click_element", "type_text"} THEN FallbackLists ELSE {Omitted}

TimeoutsOf(k) == IF k = "wait_for_element" THEN Timeouts ELSE {NoTimeout}

MaxWaitTimesOf(k) ==
    IF k = "wait_for_element" THEN MaxWaitTimes ELSE {DefaultMaxWaitTime}

\* the outcomes of the statements the call of k with fallback list fb can reach
OutcomesOf(k, fb) ==
    { o \in [1..Statements(k, fb) -> AttemptOutcomes \cup {WriteError}] :
        \A i \in DOMAIN o : o[i] \in StatementOutcomes(k, i) }

PrimitiveCalls ==
    UNION { UNION { { [state |-> "called", kind |-> k, page |-> pg, target |-> "#a",
                       fallback_selectors |-> fb, outcomes |-> o,
                       timeout |-> t, max_wait_time |-> m, waited_ms |-> NoTimeout,
                       ret |-> None, raised |-> None, records |-> <<>>] :
                        pg \in PageStates, o \in OutcomesOf(k, fb),
                        t \in TimeoutsOf(k), m \in MaxWaitTimesOf(k) } :
                    fb \in FallbackListsOf(k) } : k \in Primitives }

InitPrimitive ==
    /\ avail = <<"gmail">>
    /\ screenshot_on_error = TRUE
    /\ save_html_on_error = TRUE
    /\ AgentConstructed
    /\ cf = cfIdle
    /\ rt = rtIdle
    /\ ov = ovIdle
    /\ cli = cliIdle
    /\ sd = sdIdle
    /\ ck = ckIdle
    /\ pl = plIdle
    /\ ip = ipIdle
    /\ lg = lgIdle
    /\ pr \in PrimitiveCalls

\* the call of primitive kind runs until it returns or raises
Returns(kind) ==
    /\ pr.state = "called" /\ pr.kind = kind
    /\ LET r == Primitive(kind, pr.page, pr.target, pr.fallback_selectors, pr.outcomes) IN
       pr' = [pr EXCEPT !.state = IF r.raised = None THEN "returned" ELSE "raised",
                        !.waited_ms =
                            IF kind = "wait_for_element" /\ pr.page # "none"
                            THEN [given |-> TRUE,
                                  value |-> timeout_ms(pr.timeout, pr.max_wait_time)]
                            ELSE NoTimeout,
                        !.ret = r.ret, !.raised = r.raised, !.records = r.records]
    /\ UNCHANGED <<configVars, agentVars, sessionVars, adapterVars, ck, pl, ip, lg, sd, cli, ov, rt, cf>>

Navigate == Returns("navigate")

ClickOnPage == Returns("click_element")

TypeOnPage == Returns("type_text")

WaitForElement == Returns("wait_for_element")

TakeScreenshot == Returns("take_screenshot")

SavePageHtml == Returns("save_page_html")

NextPrimitive ==
    \/ Navigate
    \/ ClickOnPage
    \/ TypeOnPage
    \/ WaitForElement
    \/ TakeScreenshot
    \/ SavePageHtml

SpecPrimitive == InitPrimitive /\ [][NextPrimitive]_vars

\* ---------------------------------------------------------------- SpecInterpret

\* the words instructions are made of, each with the address the pattern is to
\* find in it (<<>>: none): "a@x.io", "b@y.org", "to", "a@x" (no top-level
\* domain), "<b@y.org>," (an address inside punctuation)
Words ==
    { [chars |-> <<"a", "@", "x", ".", "i", "o">>,
       address |-> <<"a", "@", "x", ".", "i", "o">>],
      [chars |-> <<"b", "@", "y", ".", "o", "r", "g">>,
       address |-> <<"b", "@", "y", ".", "o", "r", "g">>],
      [chars |-> <<"t", "o">>, address |-> <<>>],
      [chars |-> <<"a", "@", "x">>, address |-> <<>>],
      [chars |-> <<"<", "b", "@", "y", ".", "o", "r", "g", ">", ",">>,
       address |-> <<"b", "@", "y", ".", "o", "r", "g">>] }

\* the words joined by single spaces
RECURSIVE Join(_)
Join(words) ==
    IF words = <<>> THEN <<>>
    ELSE IF Len(words) = 1 THEN words[1].chars
    ELSE words[1].chars \o <<" ">> \o Join(Tail(words))

WordLists == UNION { [1..n -> Words] : n \in 0..MaxWords }

InterpretCalls ==
    { [state |-> "called", call |-> c, words |-> w, instruction |-> Join(w),
       response |-> r, returns |-> NoTask, raises |-> None] :
        c \in {"interpret_instruction", "_fallback_parsing"},
        w \in WordLists, r \in LLMResponses }

\* the words contents are made of: "Hi", "system", "automation"
ContentWords ==
    { <<"H", "i">>,
      <<"s", "y", "s", "t", "e", "m">>,
      <<"a", "u", "t", "o", "m", "a", "t", "i", "o", "n">> }

\* the words with one blank between them, or with a blank before the first
\* word, two blanks between the words and a blank after the last
Spaced(words, padded) ==
    IF ~padded THEN join(words)
    ELSE <<" ">> \o join([i \in DOMAIN words |-> words[i] \o <<" ">>])

\* a value that is the default of no key, for each key but subject and content
OtherValues ==
    [task_type |-> "upload", action |-> "upload",
     recipients |-> [text |-> Join(<<CHOOSE w \in Words : w.chars = w.address /\ Len(w.chars) = 6>>)],
     attachments |-> <<"file1.pdf">>, provider_preference |-> "outlook",
     urgency |-> "high", additional_context |-> MockSubject]

\* the JSON object with the given keys
ObjectWith(keys, subject, content) ==
    [k \in keys |->
        IF k = "subject" THEN subject
        ELSE IF k = "content" THEN content
        ELSE OtherValues[k]]

\* calls of _validate_task_info, each with the words its content is made of:
\* objects that lack any set of keys (with an empty subject, if any), and
\* objects whose subject is absent, empty or given and whose content is absent
\* or made of up to MaxContentWords words
ValidateCall(words, object) ==
    [state |-> "called", call |-> "_validate_task_info", content_words |-> words,
     response |-> [kind |-> "json", object |-> object], returns |-> NoTask,
     raises |-> None]

\* the words of MockContent
MockWords ==
    << <<"T", "h", "i", "s">>,
       <<"i", "s">>,
       <<"a">>,
       <<"t", "e", "s", "t">>,
       <<"e", "m", "a", "i", "l">>,
       <<"f", "r", "o", "m">>,
       <<"t", "h", "e">>,
       <<"a", "u", "t", "o", "m", "a", "t", "i", "o", "n">>,
       <<"s", "y", "s", "t", "e", "m">> >>

ValidateCalls ==
    { ValidateCall(MockWords, ObjectWith(keys, <<>>, MockContent)) :
        keys \in SUBSET FieldNames }
    \cup
    { ValidateCall(c.words, ObjectWith(FieldNames \ c.absent, c.subject,
                                       Spaced(c.words, c.padded))) :
        c \in [words : UNION { [1..n -> ContentWords] : n \in 0..MaxContentWords },
               absent : SUBSET {"subject", "content"},
               subject : {<<>>, MockSubject},
               padded : BOOLEAN] }

\* the addresses recipient lists are made of
Addresses == {w.address : w \in {v \in Words : v.address # <<>>}} \cup {DemoAddress}

\* calls of _format_recipients: a list of up to MaxWords addresses, or a string
FormatCalls ==
    { [state |-> "called", call |-> "_format_recipients", recipients |-> r,
       returns |-> <<>>, raises |-> None] :
        r \in { [list |-> l] : l \in UNION { [1..n -> Addresses] : n \in 0..MaxWords } }
              \cup { [text |-> t] : t \in Addresses \cup {<<>>, MockContent} } }

InitInterpret ==
    /\ avail = <<"gmail">>
    /\ screenshot_on_error = TRUE
    /\ save_html_on_error = TRUE
    /\ AgentConstructed
    /\ cf = cfIdle
    /\ rt = rtIdle
    /\ ov = ovIdle
    /\ cli = cliIdle
    /\ sd = sdIdle
    /\ ck = ckIdle
    /\ pl = plIdle
    /\ pr = prIdle
    /\ ip \in { c \in InterpretCalls :
                  c.call = "_fallback_parsing" => c.response = [kind |-> "exception"] }
              \cup ValidateCalls \cup FormatCalls
    /\ lg = lgIdle

\* interpret_instruction runs until it returns or raises
InterpretCall ==
    /\ ip.state = "called" /\ ip.call = "interpret_instruction"
    /\ LET r == interpret_instruction(ip.instruction, ip.response) IN
       ip' = [ip EXCEPT !.state = IF r.raises = None THEN "returned" ELSE "raised",
                        !.returns = r.returns, !.raises = r.raises]
    /\ UNCHANGED <<configVars, agentVars, sessionVars, adapterVars, ck, pl, pr, lg, sd, cli, ov, rt, cf>>

\* _fallback_parsing returns
FallbackParsing ==
    /\ ip.state = "called" /\ ip.call = "_fallback_parsing"
    /\ ip' = [ip EXCEPT !.state = "returned", !.returns = _fallback_parsing(ip.instruction)]
    /\ UNCHANGED <<configVars, agentVars, sessionVars, adapterVars, ck, pl, pr, lg, sd, cli, ov, rt, cf>>

\* _validate_task_info returns
ValidateTaskInfo ==
    /\ ip.state = "called" /\ ip.call = "_validate_task_info"
    /\ ip' = [ip EXCEPT !.state = "returned",
                        !.returns = _validate_task_info(ip.response.object)]
    /\ UNCHANGED <<configVars, agentVars, sessionVars, adapterVars, ck, pl, pr, lg, sd, cli, ov, rt, cf>>

\* _format_recipients returns
FormatRecipients ==
    /\ ip.state = "called" /\ ip.call = "_format_recipients"
    /\ ip' = [ip EXCEPT !.state = "returned",
                        !.returns = _format_recipients(ip.recipients)]
    /\ UNCHANGED <<configVars, agentVars, sessionVars, adapterVars, ck, pl, pr, lg, sd, cli, ov, rt, cf>>

NextInterpret == InterpretCall \/ FallbackParsing \/ ValidateTaskInfo \/ FormatRecipients

SpecInterpret == InitInterpret /\ [][NextInterpret]_vars

\* -------------------------------------------------------------- the action log

\* a list handed to a caller: the items it had when handed out, and whether it
\* is the list object of the logger itself
\* mutant: get_actions returns self.actions
get_actions_shared(log) == [shared |-> TRUE, items |-> log]

\* ActionLogger.get_actions: self.actions.copy()
get_actions(log) == [shared |-> FALSE, items |-> log]

\* ActionLogger.clear_actions: self.actions.clear()
clear_actions(log) == <<>>

\* what a caller reads in a list it was handed: the logger's list as it is now
\* when the two are one object
Observed(list) == IF list.shared THEN lg.log ELSE list.items

\* how far a run of execute() gets: interpretation fails, no provider is
\* selected, the BrowserManager cannot be constructed, start() raises, or the
\* task is executed
RunShapes ==
    {"interpretation_failed", "no_provider", "session_not_built", "session_failed",
     "task_executed"}

\* the actions execute() logs with log_action before it builds its result
LoggedBeforeResult(shape) ==
    CASE shape = "interpretation_failed" -> <<>>
      [] shape = "no_provider"           -> <<"Instruction interpreted">>
      [] shape = "session_not_built"     -> <<"Instruction interpreted", "Provider selected">>
      [] shape = "session_failed"        -> <<"Instruction interpreted", "Provider selected">>
      [] OTHER                           -> <<"Instruction interpreted", "Provider selected",
                                              "Browser initialized">>

\* the run holds a BrowserManager when the finally clause runs
StopsSession(shape) == shape \in {"session_failed", "task_executed"}

\* log with each of the actions logged in turn
RECURSIVE LogAll(_, _)
LogAll(log, names) ==
    IF names = <<>> THEN log
    ELSE LogAll(AgentLogs(log, names[1]), Tail(names))

\* ------------------------------------------------------------------ SpecLog

InitLog ==
    /\ avail = <<"gmail">>
    /\ screenshot_on_error = TRUE
    /\ save_html_on_error = TRUE
    /\ AgentConstructed
    /\ cf = cfIdle
    /\ rt = rtIdle
    /\ ov = ovIdle
    /\ cli = cliIdle
    /\ sd = sdIdle
    /\ ck = ckIdle
    /\ pl = plIdle
    /\ pr = prIdle
    /\ ip = ipIdle
    /\ lg = [state |-> "constructed", log |-> <<>>, calls |-> 0, last |-> "__init__",
             held |-> <<>>]

\* a call is made on the agent or its logger
Called(name) ==
    /\ lg.state = "constructed"
    /\ lg.calls < MaxLogCalls
    /\ UNCHANGED <<configVars, agentVars, sessionVars, adapterVars, ck, pl, pr, ip, sd, cli, ov, rt, cf>>

\* lg after the call name left the log as newLog and handed out the values in out
After(name, newLog, out) ==
    [lg EXCEPT !.calls = @ + 1, !.last = name, !.log = newLog, !.held = @ \o out]

\* a value handed to a caller: what it is, the list in it, the items the list
\* had when the call returned, and the log as it was when the call began
Handed(kind, success, list, logAtReturn) ==
    [kind |-> kind, success |-> success, actions |-> list,
     returned |-> list.items, before |-> lg.log, log |-> logAtReturn]

LogAction ==
    /\ Called("log_action")
    /\ \E success \in BOOLEAN :
         lg' = After("log_action", log_action(lg.log, "Custom action", success), <<>>)

\* log_step, log_warning, log_error and log_success write to the logger only
LogStep == Called("log_step") /\ lg' = After("log_step", lg.log, <<>>)

LogWarning == Called("log_warning") /\ lg' = After("log_warning", lg.log, <<>>)

LogError == Called("log_error") /\ lg' = After("log_error", lg.log, <<>>)

LogSuccess == Called("log_success") /\ lg' = After("log_success", lg.log, <<>>)

\* ActionLogger.get_actions / GenericUIAgent.get_action_log
GetActions ==
    /\ Called("get_actions")
    /\ \E name \in {"get_actions", "get_action_log"} :
         lg' = After(name, lg.log, <<Handed("list", TRUE, get_actions(lg.log), lg.log)>>)

\* ActionLogger.clear_actions / GenericUIAgent.clear_action_log
ClearActions ==
    /\ Called("clear_actions")
    /\ \E name \in {"clear_actions", "clear_action_log"} :
         lg' = After(name, clear_actions(lg.log), <<>>)

\* a whole run of execute(): the records of its steps, the result built with
\* get_actions(), and the record of the cleanup in the finally clause
ExecuteRun ==
    /\ Called("execute")
    /\ \E shape \in RunShapes, success \in BOOLEAN :
         LET logged == LogAll(lg.log, LoggedBeforeResult(shape))
             final == IF StopsSession(shape)
                      THEN AgentLogs(logged, "Browser cleanup completed")
                      ELSE logged IN
         /\ success => shape = "task_executed"
         /\ lg' = After("execute", final,
                        <<Handed("result", success, get_actions(logged), final)>>)

NextLog ==
    \/ LogAction
    \/ LogStep
    \/ LogWarning
    \/ LogError
    \/ LogSuccess
    \/ GetActions
    \/ ClearActions
    \/ ExecuteRun

SpecLog == InitLog /\ [][NextLog]_vars

\* ------------------------------------------------------------------ send_email

\* the default of task_info.get("subject", ...) in send_email
DefaultSubject ==
    <<"M", "e", "s", "s", "a", "g", "e", " ", "f", "r", "o", "m", " ", "a",
      "u", "t", "o", "m", "a", "t", "i", "o", "n", " ", "s", "y", "s", "t",
      "e", "m">>

\* dict.get(key, default): the default only when the key is absent
get(d, key, default) == IF key \in DOMAIN d THEN d[key] ELSE default

\* the text send_email types into a field of the compose form
SendText(target, task_info) ==
    CASE target = "to_field"      -> _format_recipients([list |-> task_info.recipients])
      [] target = "subject_field" -> get(task_info, "subject", DefaultSubject)
      [] target = "content_field" -> task_info.content
      [] OTHER                    -> <<>>

\* the operations of the compose-and-send sequence from step i on, up to and
\* including the first one that fails (first_failure; 0: none fails)
RECURSIVE SendSteps(_, _, _, _)
SendSteps(steps, i, first_failure, task_info) ==
    IF i > Len(steps) THEN <<>>
    ELSE LET o == [op |-> steps[i].op, target |-> steps[i].target,
                   text |-> IF steps[i].op = "type"
                            THEN SendText(steps[i].target, task_info) ELSE <<>>,
                   ok |-> i # first_failure] IN
         IF o.ok THEN <<o>> \o SendSteps(steps, i + 1, first_failure, task_info)
         ELSE <<o>>

\* send_email of adapter p: validation, navigation unless the page is on the
\* service already, then the compose-and-send sequence; the first operation
\* that fails ends the call with its failure dictionary
send_email(p, task_info, on_service, navigated, first_failure) ==
    IF ~ValidTask(task_info)
    THEN [success |-> FALSE, error |-> "Invalid task information", ops |-> <<>>]
    ELSE LET nav == IF on_service THEN <<>>
                    ELSE <<[op |-> "navigate", target |-> "service_url", text |-> <<>>,
                            ok |-> navigated]>> IN
         IF ~on_service /\ ~navigated
         THEN [success |-> FALSE, error |-> NavigateError(p), ops |-> nav]
         ELSE LET steps == SendSequence(p) IN
              [success |-> first_failure = 0,
               error |-> IF first_failure = 0 THEN None ELSE steps[first_failure].error,
               ops |-> nav \o SendSteps(steps, 1, first_failure, task_info)]

\* -------------------------------------------------------------------- SpecSend

\* the task_info dictionaries send_email is called with: recipients and content
\* empty or not, the subject absent, empty or not
SendTasks ==
    LET base == { [recipients |-> r, content |-> c] :
                    r \in {<<>>, <<DemoAddress>>, <<DemoAddress, AliceAddress>>},
                    c \in {<<>>, MockContent} } IN
    base \cup { [recipients |-> b.recipients, content |-> b.content, subject |-> sub] :
                  b \in base, sub \in {<<>>, MockSubject} }

SendCalls ==
    { [state |-> "called", provider |-> p, task_info |-> t, on_service |-> on,
       navigated |-> nav, first_failure |-> f, ret |-> None] :
        p \in {"gmail", "outlook"}, t \in SendTasks, on \in BOOLEAN, nav \in BOOLEAN,
        f \in 0..Len(SendSequence("outlook")) }

InitSend ==
    /\ avail = <<"gmail", "outlook">>
    /\ screenshot_on_error = TRUE
    /\ save_html_on_error = TRUE
    /\ AgentConstructed
    /\ cf = cfIdle
    /\ rt = rtIdle
    /\ ov = ovIdle
    /\ cli = cliIdle
    /\ ck = ckIdle
    /\ pl = plIdle
    /\ pr = prIdle
    /\ ip = ipIdle
    /\ lg = lgIdle
    /\ sd \in { c \in SendCalls :
                  /\ c.first_failure <= Len(SendSequence(c.provider))
                  /\ c.on_service => c.navigated }

SendEmailOf(p) ==
    /\ sd.state = "called" /\ sd.provider = p
    /\ sd' = [sd EXCEPT !.state = "returned",
                        !.ret = send_email(p, sd.task_info, sd.on_service, sd.navigated,
                                           sd.first_failure)]
    /\ UNCHANGED <<configVars, agentVars, sessionVars, adapterVars, ck, pl, pr, ip, lg, cli, ov, rt, cf>>

GmailSendEmail == SendEmailOf("gmail")

OutlookSendEmail == SendEmailOf("outlook")

NextSend == GmailSendEmail \/ OutlookSendEmail

SpecSend == InitSend /\ [][NextSend]_vars

\* --------------------------------------------------------------- the CLI (main)

\* an environment variable: not set, set to the empty string, or set
EnvValues == {"unset", "empty", "set"}

\* validate_environment: "if not os.getenv(var)" for OPENAI_API_KEY
validate_environment(openai_api_key) == openai_api_key = "set"

\* what asyncio.run(run_agent(instruction, config)) does: GenericUIAgent(config)
\* raises ValueError, the user interrupts the run, or execute() returns one of
\* its dictionaries (an early failure, the except clause's, or the task's)
RunOutcomes ==
    { [kind |-> "raises", exception |-> e] : e \in {"ValueError", "KeyboardInterrupt"} }
    \cup { [kind |-> "returns",
            result |-> [success |-> FALSE, error |-> m, duration |-> d]] :
              m \in {"No suitable provider available", "Login failed",
                     "Failed to click send button"},
              d \in {0, Elapsed} }
    \cup { [kind |-> "returns",
            result |-> [success |-> TRUE, error |-> None, duration |-> Elapsed]] }

\* the process has not exited
Running == -1

\* the heading display_results prints, whatever the result holds
Heading == "Task Completed Successfully!"

\* ---------------------------------------------------------------- SpecMain

MainCalls ==
    { [state |-> "invoked", openai_api_key |-> k, provider |-> p, verbose |-> v,
       outcome |-> o, printed |-> <<>>, exit_code |-> Running] :
        k \in EnvValues, p \in {None, "gmail", "outlook"}, v \in BOOLEAN,
        o \in RunOutcomes }

InitMain ==
    /\ avail = <<"gmail">>
    /\ screenshot_on_error = TRUE
    /\ save_html_on_error = TRUE
    /\ AgentConstructed
    /\ cf = cfIdle
    /\ rt = rtIdle
    /\ ov = ovIdle
    /\ ck = ckIdle
    /\ pl = plIdle
    /\ pr = prIdle
    /\ ip = ipIdle
    /\ lg = lgIdle
    /\ sd = sdIdle
    /\ cli \in MainCalls

mainFrame == <<configVars, agentVars, sessionVars, adapterVars, ck, pl, pr, ip, lg, sd, ov, rt, cf>>

\* main: "if not validate_environment(): sys.exit(1)", then the Config and the
\* welcome panel
ValidateEnvironment ==
    /\ cli.state = "invoked"
    /\ cli' = IF validate_environment(cli.openai_api_key)
              THEN [cli EXCEPT !.state = "configured",
                               !.printed = Append(@, "Agent Ready")]
              ELSE [cli EXCEPT !.state = "exited", !.exit_code = 1,
                               !.printed = Append(@, "Missing required environment variables")]
    /\ UNCHANGED mainFrame

\* main: result = asyncio.run(run_agent(...)) inside the try; KeyboardInterrupt
\* and Exception are printed and end the process with sys.exit(1)
RunAgent ==
    /\ cli.state = "configured"
    /\ cli' = IF cli.outcome.kind = "returns"
              THEN [cli EXCEPT !.state = "ran"]
              ELSE [cli EXCEPT !.state = "exited", !.exit_code = 1,
                               !.printed = Append(@, IF cli.outcome.exception = "KeyboardInterrupt"
                                                     THEN "Operation cancelled by user"
                                                     ELSE "Error")]
    /\ UNCHANGED mainFrame

\* main: display_results(result), then the command returns and the process
\* ends with exit code 0
DisplayResults ==
    /\ cli.state = "ran"
    /\ cli' = [cli EXCEPT !.state = "exited", !.exit_code = 0,
                          !.printed = Append(@, Heading)]
    /\ UNCHANGED mainFrame

NextMain == ValidateEnvironment \/ RunAgent \/ DisplayResults

SpecMain == InitMain /\ [][NextMain]_vars

\* ------------------------------------------------- overlapping execute() calls

\* the two coroutines; the BrowserManager built by call c has id c
Calls == {1, 2}

\* ov: the agent's attributes the calls share (browser_manager, providers), the
\* BrowserManager objects, and for each call: the provider it selected, where
\* it is suspended, the session its adapter drives, the session its cleanup is
\* stopping, and the sessions it has operated on and stopped
InitOverlap ==
    /\ avail = <<"gmail", "outlook">>
    /\ screenshot_on_error = TRUE
    /\ save_html_on_error = TRUE
    /\ AgentConstructed
    /\ cf = cfIdle
    /\ rt = rtIdle
    /\ ck = ckIdle
    /\ pl = plIdle
    /\ pr = prIdle
    /\ ip = ipIdle
    /\ lg = lgIdle
    /\ sd = sdIdle
    /\ cli = cliIdle
    /\ \E sel \in [Calls -> {"gmail", "outlook"}] :
         ov = [browser_manager |-> NoSession,
               providers |-> [p \in {"gmail", "outlook"} |-> NoSession],
               bm |-> [c \in Calls |-> NotConstructed],
               selected |-> sel,
               at |-> [c \in Calls |-> "called"],
               adapter |-> [c \in Calls |-> NoSession],
               stopping |-> [c \in Calls |-> NoSession],
               used |-> [c \in Calls |-> {}],
               stopped |-> [c \in Calls |-> <<>>]]

overlapFrame ==
    <<configVars, agentVars, sessionVars, adapterVars, ck, pl, pr, ip, lg, sd, cli, rt, cf>>

\* the finally clause reached by call c in state o: _cleanup_browser reads
\* self.browser_manager and, if it holds one, calls stop() on it, where the
\* coroutine suspends
EnterCleanup(o, c) ==
    IF HoldsSession(o.browser_manager)
    THEN [o EXCEPT !.at[c] = "stopping", !.stopping[c] = o.browser_manager]
    ELSE [o EXCEPT !.at[c] = "returned"]

\* execute() from its start to the first suspension: interpretation and
\* provider selection do not suspend; _initialize_browser assigns a new
\* BrowserManager to self.browser_manager and awaits its start()
BeginExecute(c) ==
    /\ ov.at[c] = "called"
    /\ ov' = [ov EXCEPT !.browser_manager = c,
                        !.bm[c] = NewSession,
                        !.at[c] = "starting"]
    /\ UNCHANGED overlapFrame

\* start() of call c's BrowserManager completes (f: the statement that raised).
\* On success _get_provider_adapter returns the cached adapter or builds one on
\* self.browser_manager as it is now, and execute_task suspends in its first
\* page operation; on failure the except clause and the finally clause run
StartCompletes(c) ==
    /\ ov.at[c] = "starting"
    /\ \E f \in StartFailures :
         LET o1 == [ov EXCEPT !.bm[c] = start(@, f)]
             p == ov.selected[c]
             o2 == IF o1.providers[p] # NoSession THEN o1
                   ELSE [o1 EXCEPT !.providers[p] = o1.browser_manager] IN
         ov' = IF f = "none"
               THEN [o2 EXCEPT !.at[c] = "executing", !.adapter[c] = o2.providers[p]]
               ELSE EnterCleanup(o1, c)
    /\ UNCHANGED overlapFrame

\* the page operations of execute_task complete (on the session the adapter
\* holds), the result is built, and the finally clause runs
TaskCompletes(c) ==
    /\ ov.at[c] = "executing"
    /\ ov' = EnterCleanup([ov EXCEPT !.used[c] = @ \cup {ov.adapter[c]}], c)
    /\ UNCHANGED overlapFrame

\* the stop() awaited by call c's cleanup completes; _cleanup_browser then
\* sets self.browser_manager to None and execute() returns
StopCompletes(c) ==
    /\ ov.at[c] = "stopping"
    /\ LET s == ov.stopping[c] IN
       \E r \in StopOutcomes(ov.bm[s]) :
         ov' = [ov EXCEPT !.bm[s] = stop(@, r),
                          !.stopped[c] = Append(@, s),
                          !.browser_manager = NoSession,
                          !.at[c] = "returned"]
    /\ UNCHANGED overlapFrame

BeginExecuteStep == \E c \in Calls : BeginExecute(c)

StartCompletesStep == \E c \in Calls : StartCompletes(c)

TaskCompletesStep == \E c \in Calls : TaskCompletes(c)

StopCompletesStep == \E c \in Calls : StopCompletes(c)

NextOverlap ==
    \/ BeginExecuteStep
    \/ StartCompletesStep
    \/ TaskCompletesStep
    \/ StopCompletesStep

SpecOverlap == InitOverlap /\ [][NextOverlap]_vars

\* --------------------------------------------------- execute_with_dom_analysis

\* the plans generate_action_plan returns, as the actions of their steps: the
\* plan of the model's response, or _get_default_action_plan when the call or
\* the parsing of its response fails
ResponsePlan == <<"navigate">>

DefaultActionPlan == <<"navigate", "click", "type", "type", "type", "click">>

ActionPlans == {ResponsePlan, DefaultActionPlan}

\* the sets of steps of a plan of n steps that fail in a run
FailingSteps(n) == {{}, {1}, {n}, 1..n}

\* mutant: the plan is executed whether or not the navigation succeeded
ProceedsToPlanAlways(navigated) == TRUE

\* "if not await self.browser_manager.navigate(service_url): return ..."
ProceedsToPlan(navigated) == navigated

\* the operations execute_action_plan makes on the agent's session for plan,
\* the steps in failing returning false
PlanOps(plan, failing) ==
    [i \in DOMAIN plan |->
        [sess |-> browser_manager, op |-> "plan_step", target |-> plan[i],
         ok |-> i \notin failing]]

\* the result of execute_action_plan with provider, task_type and actions set
DomResult(failing) ==
    [success |-> failing = {}, error |-> None, provider |-> provider,
     warnings |-> <<>>, actions |-> actions, task_type |-> task.task_type,
     duration |-> NoDuration,
     keys |-> {"success", "actions", "errors", "screenshots", "provider", "task_type"}]

\* execute_with_dom_analysis() is called on the idle agent
DomExecute ==
    /\ pc \in {"Idle", "DomDone"}
    /\ runs < MaxRuns
    /\ runs' = runs + 1
    /\ pc' = "DomInterpreting"
    /\ phases' = <<"DomInterpreting">>
    /\ task' = NoTask
    /\ provider' = None
    /\ warned' = <<>>
    /\ actions' = <<>>
    /\ pending' = NoResult
    /\ result' = NoResult
    /\ thrown' = None
    /\ stopCalls' = 0
    /\ ops' = <<>>
    /\ bm' = [s \in Sessions |-> IF Reachable(s) THEN bm[s] ELSE NotConstructed]
    /\ UNCHANGED <<configVars, browser_manager, providers, escaped, startOk, apc, ai,
                   loginRet, sendInvoked, ck, pl, pr, ip, lg, sd, cli, ov, rt, cf>>

domFrame == <<configVars, runs, escaped, startOk, apc, ai, loginRet, sendInvoked,
              ck, pl, pr, ip, lg, sd, cli, ov, rt, cf>>

\* "return self._create_error_result(...)" inside the try: the finally clause
\* is next
DomFails(error_message) ==
    /\ pending' = _create_error_result(error_message)
    /\ Enter("DomCleanup")

\* _interpret_instruction; "if not task_info" returns the error result
DomInterpret ==
    /\ pc = "DomInterpreting"
    /\ \E instruction \in Instructions, response \in LLMResponses :
         LET task_info == _interpret_instruction(instruction, response) IN
         /\ task' = task_info
         /\ IF task_info = NoTask
            THEN /\ DomFails("Failed to interpret instruction")
                 /\ actions' = actions
            ELSE /\ pending' = pending
                 /\ actions' = AgentLogs(actions, "Instruction interpreted")
                 /\ Enter("DomSelecting")
    /\ UNCHANGED <<domFrame, provider, warned, browser_manager, providers, result,
                   thrown, bm, stopCalls, ops>>

\* _select_provider; "if not provider_name" returns the error result
DomSelect ==
    /\ pc = "DomSelecting"
    /\ LET sel == _select_provider(task, avail) IN
         /\ provider' = sel.selected
         /\ warned' = warned \o sel.warnings
         /\ IF sel.selected = None
            THEN /\ DomFails("No suitable provider available")
                 /\ actions' = actions
            ELSE /\ pending' = pending
                 /\ actions' = AgentLogs(actions, "Provider selected")
                 /\ Enter("DomStarting")
    /\ UNCHANGED <<domFrame, task, browser_manager, providers, result, thrown, bm,
                   stopCalls, ops>>

\* _initialize_browser, whose exception the except clause turns into
\* _create_error_result(str(e)); then _get_provider_adapter, which returns the
\* cached adapter or builds one on self.browser_manager
DomInitialize ==
    /\ pc = "DomStarting"
    /\ \E f \in StartFailures \cup {"ctor"} :
         LET out == InitializeOutcome(f) IN
         /\ IF f = "ctor"
            THEN UNCHANGED <<browser_manager, bm>>
            ELSE /\ browser_manager' = runs
                 /\ bm' = [bm EXCEPT ![runs] = start(NewSession, f)]
         /\ IF out.raised
            THEN /\ thrown' = out.message
                 /\ DomFails(out.message)
                 /\ UNCHANGED <<actions, providers>>
            ELSE /\ actions' = AgentLogs(actions, "Browser initialized")
                 /\ providers' = IF providers[provider] # NoSession THEN providers
                                 ELSE [providers EXCEPT ![provider] = runs]
                 /\ Enter("DomNavigating")
                 /\ UNCHANGED <<pending, thrown>>
    /\ UNCHANGED <<domFrame, task, provider, warned, result, stopCalls, ops>>

\* navigate to the service on the agent's session; on success the page content
\* is read, the plan is generated and execute_action_plan runs all its steps
DomNavigateAndPlan ==
    /\ pc = "DomNavigating"
    /\ \E navigated \in PageOutcomes(browser_manager) :
         LET nav == Append(ops, [sess |-> browser_manager, op |-> "navigate",
                                 target |-> "service_url", ok |-> navigated]) IN
         IF ProceedsToPlan(navigated)
         THEN \E plan \in ActionPlans :
                \E failing \in FailingSteps(Len(plan)) :
                  /\ (\E i \in failing : TRUE) \/ TRUE \in PageOutcomes(browser_manager)
                  /\ ops' = nav \o PlanOps(plan, failing)
                  /\ pending' = DomResult(failing)
                  /\ Enter("DomCleanup")
         ELSE /\ ops' = nav
              /\ DomFails("Failed to navigate to service")
    /\ UNCHANGED <<domFrame, task, provider, warned, actions, browser_manager,
                   providers, result, thrown, bm, stopCalls>>

\* the finally clause: _cleanup_browser, then the caller receives the result
DomCleanup ==
    /\ pc = "DomCleanup"
    /\ IF HoldsSession(browser_manager)
       THEN \E r \in StopOutcomes(bm[browser_manager]) :
              /\ bm' = [bm EXCEPT ![browser_manager] = stop(@, r)]
              /\ stopCalls' = stopCalls + 1
              /\ browser_manager' = NoSession
              /\ actions' = AgentLogs(actions, "Browser cleanup completed")
       ELSE UNCHANGED <<bm, stopCalls, browser_manager, actions>>
    /\ result' = pending
    /\ Enter("DomDone")
    /\ UNCHANGED <<domFrame, task, provider, warned, providers, pending, thrown, ops>>

NextDom ==
    \/ DomExecute
    \/ DomInterpret
    \/ DomSelect
    \/ DomInitialize
    \/ DomNavigateAndPlan
    \/ DomCleanup

SpecDom == Init /\ [][NextDom]_vars

\* ------------------------------------------------------------- _retry_action

\* "max_retries: int = None": the argument omitted
NoRetries == [given |-> FALSE]

RetriesArguments == {NoRetries} \cup {[given |-> TRUE, value |-> n] : n \in 0..MaxRetries}

\* what one "await action_func()" does
ActionFuncOutcomes == {"truthy", "falsy", "raises"}

\* "max_retries or self.config.retry_attempts": None and 0 are falsy
OrRetries(max_retries, retry_attempts) ==
    IF max_retries.given /\ max_retries.value # 0 THEN max_retries.value
    ELSE retry_attempts

RECURSIVE Pow2(_)
Pow2(k) == IF k = 0 THEN 1 ELSE 2 * Pow2(k - 1)

InitRetry ==
    /\ avail = <<"gmail">>
    /\ screenshot_on_error = TRUE
    /\ save_html_on_error = TRUE
    /\ AgentConstructed
    /\ cf = cfIdle
    /\ ov = ovIdle
    /\ ck = ckIdle
    /\ pl = plIdle
    /\ pr = prIdle
    /\ ip = ipIdle
    /\ lg = lgIdle
    /\ sd = sdIdle
    /\ cli = cliIdle
    /\ \E m \in RetriesArguments, r \in 0..MaxRetries :
         rt = [state |-> "looping", argument |-> m, retry_attempts |-> r,
               max_retries |-> OrRetries(m, r), attempt |-> 0,
               invoked |-> <<>>, slept |-> <<>>, returned |-> "none"]

retryFrame == <<configVars, agentVars, sessionVars, adapterVars, ck, pl, pr, ip, lg,
                sd, cli, ov, cf>>

\* one iteration of "for attempt in range(max_retries)": the call of
\* action_func, the return on a truthy result, the warning on an exception,
\* and the sleep of 2 ** attempt seconds unless the attempt was the last
RetryAttempt ==
    /\ rt.state = "looping"
    /\ rt.attempt < rt.max_retries
    /\ \E outcome \in ActionFuncOutcomes :
         rt' = IF outcome = "truthy"
               THEN [rt EXCEPT !.invoked = Append(@, outcome), !.state = "returned",
                               !.returned = "True"]
               ELSE [rt EXCEPT !.invoked = Append(@, outcome),
                               !.slept = IF rt.attempt < rt.max_retries - 1
                                         THEN Append(@, Pow2(rt.attempt)) ELSE @,
                               !.attempt = @ + 1]
    /\ UNCHANGED retryFrame

\* the range is exhausted: "return False"
RetryExhausted ==
    /\ rt.state = "looping"
    /\ rt.attempt >= rt.max_retries
    /\ rt' = [rt EXCEPT !.state = "returned", !.returned = "False"]
    /\ UNCHANGED retryFrame

NextRetry ==
    \/ RetryAttempt
    \/ RetryExhausted

SpecRetry == InitRetry /\ [][NextRetry]_vars

\* ------------------------------------------- Config and GenericUIAgent.__init__

\* the values of a credential field or of the API key: unset (None, for the
\* key the default ""), the empty string, a non-empty string
FieldValues == {"None", "", "set"}

\* Python's truth value of a field
Truthy(v) == v \notin {"None", ""}

\* the configurations: openai_api_key is a str whose default is ""
Configs ==
    [openai_api_key : {"", "set"}, gmail_email : FieldValues,
     gmail_password : FieldValues, outlook_email : FieldValues,
     outlook_password : FieldValues]

\* the names is_provider_configured is asked about
ProviderNames == {"gmail", "outlook", "yahoo"}

\* get_available_providers: gmail is appended first, then outlook
get_available_providers(c) ==
    (IF Truthy(c.gmail_email) /\ Truthy(c.gmail_password) THEN <<"gmail">> ELSE <<>>)
    \o (IF Truthy(c.outlook_email) /\ Truthy(c.outlook_password)
        THEN <<"outlook">> ELSE <<>>)

\* mutant: validate checks the API key only
validate_key_only(c) ==
    IF ~Truthy(c.openai_api_key) THEN "OpenAI API key is required" ELSE "None"

\* Config.validate: the message of the ValueError it raises, "None" when it
\* returns True
validate(c) ==
    IF ~Truthy(c.openai_api_key) THEN "OpenAI API key is required"
    ELSE LET gmail_configured == Truthy(c.gmail_email) /\ Truthy(c.gmail_password)
             outlook_configured == Truthy(c.outlook_email) /\ Truthy(c.outlook_password)
         IN IF ~gmail_configured /\ ~outlook_configured
            THEN "At least one email provider must be configured"
            ELSE "None"

InitConfig ==
    /\ avail = <<"gmail">>
    /\ screenshot_on_error = TRUE
    /\ save_html_on_error = TRUE
    /\ AgentConstructed
    /\ rt = rtIdle
    /\ ov = ovIdle
    /\ ck = ckIdle
    /\ pl = plIdle
    /\ pr = prIdle
    /\ ip = ipIdle
    /\ lg = lgIdle
    /\ sd = sdIdle
    /\ cli = cliIdle
    /\ \E c \in Configs :
         cf = [state |-> "config", config |-> c, agent |-> "none", error |-> "None",
               asked |-> FALSE, providers |-> <<>>,
               configured |-> [p \in ProviderNames |-> FALSE]]

configFrame == <<configVars, agentVars, sessionVars, adapterVars, ck, pl, pr, ip, lg,
                 sd, cli, ov, rt>>

\* GenericUIAgent(config): __init__ calls config.validate() and re-raises its
\* ValueError, in which case the caller gets no agent
ConstructGenericUIAgent ==
    /\ cf.state # "none"
    /\ cf.agent = "none"
    /\ cf' = [cf EXCEPT !.agent = IF validate(cf.config) = "None" THEN "exists"
                                  ELSE "raised",
                        !.error = validate(cf.config)]
    /\ UNCHANGED configFrame

\* get_available_providers() and is_provider_configured(p) are called on the
\* config
AskProviders ==
    /\ cf.state # "none"
    /\ ~cf.asked
    /\ cf' = [cf EXCEPT !.asked = TRUE,
                        !.providers = get_available_providers(cf.config),
                        !.configured = [p \in ProviderNames |->
                                           is_provider_configured(
                                               get_available_providers(cf.config), p)]]
    /\ UNCHANGED configFrame

NextConfig ==
    \/ ConstructGenericUIAgent
    \/ AskProviders

SpecConfig == InitConfig /\ [][NextConfig]_vars

\* ===================================================================== claims

\* the session built by the running (or just finished) execute(), if any
RunSession == bm[runs]

Returned == pc = "Done"

\* ---- C1
\* C1 (as stated): in every run of execute(), also one that fails in provider
\* selection, stop() has been invoked exactly once when execute() returns.
C1_StopExactlyOnceInEveryRun ==
    Returned => stopCalls = 1

\* C1 (amended): when execute() returns, stop() has been invoked exactly once
\* if the run constructed a session (a successful run, a failed session start, a
\* task that failed or threw), and not at all if the run ended before one was
\* constructed (provider selection failed); it is never invoked twice in a run.
C1_StopOncePerConstructedSession ==
    /\ stopCalls <= 1
    /\ runs >= 1 => RunSession.stops = stopCalls
    /\ Returned => stopCalls = (IF RunSession.constructed THEN 1 ELSE 0)
    /\ Returned => browser_manager = NoSession

\* a run whose task raised inside send_email (a keyboard press) returned after one stop()
C1_Witness ==
    /\ Returned
    /\ stopCalls = 1
    /\ "Executing" \in Range(phases)
    /\ result.error = "keyboard press failed"

\* ---- C2
\* C2 (as stated): when execute() returns, every handle that start() acquired in
\* this run (playwright, browser, context, page) has been closed, also when
\* closing one of them raised inside stop(): none is still open with no close()
\* ever called on it.
C2_NoHandleLeaked ==
    Returned => \A h \in HandleNames : RunSession[h] # "open"

\* ---- C3
\* C3: with no provider configured, execute() returns success = false with error
\* "No suitable provider available", and the run never constructs or starts a
\* session (and so issues no session operation).
C3_NoProviderNoSession ==
    (avail = <<>> /\ runs >= 1) =>
        /\ ~RunSession.constructed
        /\ browser_manager = NoSession
        /\ "SessionStarting" \notin Range(phases)
        /\ ops = <<>>
        /\ Returned =>
             /\ result # NoResult
             /\ result.success = FALSE
             /\ result.error = "No suitable provider available"

C3_Witness ==
    /\ Returned
    /\ avail = <<>>
    /\ task # NoTask
    /\ task.provider_preference = "auto"
    /\ result.error = "No suitable provider available"

\* ---- C4
PhaseOrder ==
    <<"Interpreting", "SelectingProvider", "SessionStarting", "Executing", "Cleanup", "Done">>

Rank(phase) == CHOOSE i \in 1..Len(PhaseOrder) : PhaseOrder[i] = phase

WorkingPhases == {"Interpreting", "SelectingProvider", "SessionStarting", "Executing"}

\* C4: the phases of a run are entered in the order Interpreting,
\* SelectingProvider, SessionStarting, Executing, Cleanup, Done; a working phase
\* is entered only from the one before it and only when that one succeeded
\* (a task was interpreted, a provider was selected, the session start returned
\* without error); Done is entered only from Cleanup; a run that skipped a
\* working phase because one failed ends in Done with a failure result.
C4_PhasesInOrder ==
    /\ \A i \in DOMAIN phases : phases[i] \in Range(PhaseOrder)
    /\ phases # <<>> => phases[1] = "Interpreting" /\ pc = Last(phases)
    /\ \A i \in 2..Len(phases) :
         /\ Rank(phases[i - 1]) < Rank(phases[i])
         /\ phases[i] \in WorkingPhases => Rank(phases[i - 1]) = Rank(phases[i]) - 1
         /\ phases[i] = "Done" => phases[i - 1] = "Cleanup"
    /\ "SelectingProvider" \in Range(phases) => task # NoTask
    /\ "SessionStarting" \in Range(phases) => provider # None
    /\ "Executing" \in Range(phases) => startOk /\ thrown = None
    /\ (Returned /\ "Executing" \notin Range(phases)) =>
         result # NoResult /\ result.success = FALSE

\* a run whose session start failed went from SessionStarting to Cleanup and Done
C4_Witness ==
    /\ phases = <<"Interpreting", "SelectingProvider", "SessionStarting", "Cleanup", "Done">>
    /\ thrown = "browser failed to launch"

\* ---- C5
\* C5: an exception that escapes a phase of execute() (a failed session start,
\* re-raised by _initialize_browser) never reaches the caller: execute() returns
\* a result with success = false and error = the exception's message, and the
\* caller has that result only after the cleanup ran (the session built in the
\* run, if any, was stopped and the agent no longer holds it).
C5_ExceptionBecomesResult ==
    /\ escaped = None
    /\ result # NoResult =>
         /\ Returned
         /\ "Cleanup" \in Range(phases)
         /\ browser_manager = NoSession
         /\ RunSession.constructed => RunSession.stops = 1
    /\ (Returned /\ thrown # None) =>
         /\ result # NoResult
         /\ result.success = FALSE
         /\ result.error = thrown

\* start() raised after the page was created; the caller got the failure result
C5_Witness ==
    /\ Returned
    /\ thrown = "set_default_timeout failed"
    /\ result.error = "set_default_timeout failed"
    /\ RunSession.stops = 1

\* ---- C6
SendOps ==
    { [op |-> "click", target |-> "compose_button"],
      [op |-> "type",  target |-> "to_field"],
      [op |-> "type",  target |-> "subject_field"],
      [op |-> "type",  target |-> "content_field"],
      [op |-> "click", target |-> "send_button"],
      [op |-> "press", target |-> "Tab"] }

IsSendOp(o) == [op |-> o.op, target |-> o.target] \in SendOps

\* C6: send_email is invoked only after login returned true; when login returned
\* false, send_email is never invoked, no compose or send operation reaches the
\* session, and execute_task returns success = false with error "Login failed".
C6_SendOnlyAfterLogin ==
    /\ sendInvoked => loginRet = "True"
    /\ (\E i \in DOMAIN ops : IsSendOp(ops[i])) => loginRet = "True"
    /\ loginRet = "False" =>
         /\ ~sendInvoked
         /\ pc \in {"Cleanup", "Done"}
         /\ pending # NoResult
         /\ pending.success = FALSE
         /\ pending.error = "Login failed"
         /\ pending.provider = provider

\* the password step failed: login returned false and the run ended with "Login failed"
C6_Witness ==
    /\ Returned
    /\ loginRet = "False"
    /\ Len(ops) >= 4
    /\ result.error = "Login failed"

\* ---- C7
\* the candidates in the order the caller listed them
Listed == <<ck.selector>> \o ck.fallback_selectors.list

ClickReturned == ck.state = "returned" /\ ck.call = "click"

\* C7: click_element tries the primary selector and then the fallbacks in listed
\* order; it returns true at the first candidate that succeeds and tries none
\* after it; it returns false only after the last candidate failed, and then
\* appends one failed ActionRecord carrying the last candidate's error text.
C7_ClickFallbackOrder ==
    ClickReturned =>
        LET n == Len(ck.attempts) IN
        /\ n >= 1 /\ n <= Len(Listed)
        /\ ck.attempts = SubSeq(Listed, 1, n)
        /\ \A j \in 1..(n - 1) : ck.outcomes[j] # "ok"
        /\ ck.ret =>
             /\ ck.outcomes[n] = "ok"
             /\ ck.records = <<ActionRecord("Clicked element", Listed[n], TRUE, None)>>
        /\ ~ck.ret =>
             /\ n = Len(Listed)
             /\ ck.outcomes[n] # "ok"
             /\ ck.records = <<ActionRecord("Click element", Listed[n], FALSE, ck.outcomes[n])>>

\* all three candidates failed; the record carries the error of the third
C7_Witness ==
    /\ ClickReturned
    /\ ~ck.ret
    /\ Len(ck.attempts) = 3
    /\ ck.outcomes = <<"Timeout 5000ms exceeded", "Timeout 5000ms exceeded",
                       "Element is not attached">>
    /\ Len(ck.records) = 1
    /\ ck.records[1].details = "Element is not attached"

\* ---- C8
\* the call has N >= 1 fallback candidates and only the last of them succeeds
OnlyLastFallbackSucceeds ==
    /\ ck.fallback_selectors.given
    /\ Len(ck.fallback_selectors.list) >= 1
    /\ ck.outcomes[Len(ck.outcomes)] = "ok"
    /\ \A j \in 1..(Len(ck.outcomes) - 1) : ck.outcomes[j] # "ok"

\* C8 (as stated): click_element called with N fallback candidates of which only
\* the last succeeds performs exactly N attempts and returns true, and appends
\* only the ActionRecord of the final, successful attempt.
C8_NFallbacksNAttempts ==
    (ClickReturned /\ OnlyLastFallbackSucceeds) =>
        /\ Len(ck.attempts) = Len(ck.fallback_selectors.list)
        /\ ck.ret
        /\ ck.records = <<ActionRecord("Clicked element", Last(Listed), TRUE, None)>>

\* C8 (amended): click_element called with N fallback candidates of which only
\* the last succeeds performs exactly N + 1 attempts (the primary selector, then
\* the N fallbacks) and returns true, and appends only the ActionRecord of the
\* final, successful attempt.
C8_NFallbacksNPlusOneAttempts ==
    (ClickReturned /\ OnlyLastFallbackSucceeds) =>
        /\ Len(ck.attempts) = Len(ck.fallback_selectors.list) + 1
        /\ ck.attempts = Listed
        /\ ck.ret
        /\ ck.records = <<ActionRecord("Clicked element", Last(Listed), TRUE, None)>>

\* two fallbacks, the second one succeeds: three attempts
C8_Witness ==
    /\ ClickReturned
    /\ OnlyLastFallbackSucceeds
    /\ Len(ck.fallback_selectors.list) = 2
    /\ Len(ck.attempts) = 3
    /\ ck.ret

\* ---- C9
\* C9: click_element and type_text called with an empty or omitted fallback list
\* make exactly one attempt, on the primary selector, and return true iff that
\* attempt succeeds.
C9_EmptyFallbackSingleAttempt ==
    (ck.state = "returned" /\ ck.fallback_selectors.list = <<>>) =>
        /\ ck.attempts = <<ck.selector>>
        /\ ck.ret <=> ck.outcomes[1] = "ok"
        /\ Len(ck.records) = 1
        /\ ck.records[1].target = ck.selector

\* type_text with the fallback list omitted failed on its one attempt
C9_Witness ==
    /\ ck.state = "returned"
    /\ ck.call = "type"
    /\ ~ck.fallback_selectors.given
    /\ ~ck.ret
    /\ ck.attempts = <<ck.selector>>

\* ---- C10
\* the steps among the first n executed whose outcome was a failure, in order
RECURSIVE FailedSteps(_)
FailedSteps(n) ==
    IF n = 0 THEN <<>>
    ELSE FailedSteps(n - 1) \o (IF pl.outcomes[n] THEN <<>> ELSE <<pl.executed[n]>>)

\* C10: execute_action_plan never aborts early: the steps are executed in plan
\* order whatever the outcome of earlier ones, and all of them have been when it
\* returns; success is true iff every step succeeded; errors holds one entry per
\* failed step, in order; so a 5-step plan in which only step 3 fails returns
\* success = false and exactly one error, which names step 3.
C10_PlanNeverAborts ==
    pl.state # "none" =>
        /\ Len(pl.executed) = pl.idx - 1
        /\ \A i \in DOMAIN pl.executed : pl.executed[i] = pl.actions[i].step
        /\ pl.state = "returned" => Len(pl.executed) = Len(pl.actions)
        /\ pl.results.success <=> (\A i \in DOMAIN pl.outcomes : pl.outcomes[i])
        /\ [i \in DOMAIN pl.results.errors |-> pl.results.errors[i].step]
             = FailedSteps(Len(pl.executed))
        /\ (pl.state = "returned" /\ pl.outcomes = <<TRUE, TRUE, FALSE, TRUE, TRUE>>) =>
             /\ pl.executed = <<1, 2, 3, 4, 5>>
             /\ ~pl.results.success
             /\ Len(pl.results.errors) = 1
             /\ pl.results.errors[1].step = 3

\* a 5-step plan returned after step 3 alone failed
C10_Witness ==
    /\ pl.state = "returned"
    /\ Len(pl.actions) = 5
    /\ pl.outcomes = <<TRUE, TRUE, FALSE, TRUE, TRUE>>
    /\ pl.executed = <<1, 2, 3, 4, 5>>
    /\ Len(pl.results.errors) = 1
    /\ pl.results.errors[1].step = 3

\* ---- C11
\* the five operations of send_email the claim orders, and the error each
\* reports when it fails
ComposeOrder ==
    << [op |-> "click", target |-> "compose_button"],
       [op |-> "type",  target |-> "to_field"],
       [op |-> "type",  target |-> "subject_field"],
       [op |-> "type",  target |-> "content_field"],
       [op |-> "click", target |-> "send_button"] >>

ComposeErrors ==
    << "Failed to click compose button", "Failed to fill recipient field",
       "Failed to fill subject field", "Failed to fill content field",
       "Failed to click send button" >>

IsComposeOp(o) == [op |-> o.op, target |-> o.target] \in Range(ComposeOrder)

\* the compose operations the running send_email has issued, in order
ComposeTrace == SelectSeq(ops, IsComposeOp)

\* C11: send_email of both adapters issues click compose, fill recipients, fill
\* subject, fill content, click send in that order; nothing is issued after one
\* of them failed, so send is clicked only after the three fills succeeded; the
\* failed operation ends the call with a failure result that names it, and the
\* failure result execute_task returns carries the provider name.
C11_SendInFixedOrder ==
    LET tr == ComposeTrace
        n == Len(tr) IN
    /\ n <= Len(ComposeOrder)
    /\ \A i \in 1..n : [op |-> tr[i].op, target |-> tr[i].target] = ComposeOrder[i]
    /\ \A i \in 1..(n - 1) : tr[i].ok
    /\ \A i \in DOMAIN ops : (IsComposeOp(ops[i]) /\ ~ops[i].ok) => i = Len(ops)
    /\ (n >= 1 /\ ~tr[n].ok) =>
         /\ pc \in {"Cleanup", "Done"}
         /\ pending.success = FALSE
         /\ pending.error = ComposeErrors[n]
    /\ (sendInvoked /\ pc \in {"Cleanup", "Done"}) =>
         /\ pending.provider = provider
         /\ "provider" \in pending.keys
         /\ pending.success => (n = Len(ComposeOrder) /\ tr[n].ok)

\* Outlook: filling the content field failed, the send button was never clicked
C11_Witness ==
    /\ Returned
    /\ provider = "outlook"
    /\ Len(ComposeTrace) = 4
    /\ ~ComposeTrace[4].ok
    /\ result.success = FALSE
    /\ result.error = "Failed to fill content field"
    /\ result.provider = "outlook"

\* ---- C12
\* _select_provider of the running execute() has returned
SelectionMade == pc \in {"SessionStarting", "Executing", "Cleanup", "Done"} /\ task # NoTask

\* C12: with preference "auto" the provider selected is "gmail" whenever gmail
\* is configured (so also when both gmail and outlook are), otherwise the first
\* configured provider; with a preference that names a configured provider the
\* provider selected is that one.
C12_ProviderSelection ==
    SelectionMade =>
        LET preference == task.provider_preference IN
        /\ (preference = "auto" /\ "gmail" \in Range(avail)) => provider = "gmail"
        /\ (preference = "auto" /\ "gmail" \notin Range(avail) /\ avail # <<>>) =>
             provider = avail[1]
        /\ preference \in Range(avail) => provider = preference

\* gmail and outlook configured, preference "auto": gmail was selected
C12_Witness ==
    /\ SelectionMade
    /\ avail = <<"gmail", "outlook">>
    /\ task.provider_preference = "auto"
    /\ provider = "gmail"
    /\ pc = "SessionStarting"

\* ---- C13
\* the warning _select_provider logs for a preference that is not configured
UnmetPreference == "Preferred provider not configured"

\* C13 (as stated): when the task prefers "outlook" and only "gmail" is
\* configured, the run uses "gmail" (the task is executed by the gmail adapter)
\* and the result execute() returns carries exactly one warning about the unmet
\* preference.
C13_UnmetPreferenceWarned ==
    (/\ Returned
     /\ avail = <<"gmail">>
     /\ task.provider_preference = "outlook"
     /\ "Executing" \in Range(phases)) =>
        /\ provider = "gmail"
        /\ "warnings" \in result.keys
        /\ Cardinality({i \in DOMAIN result.warnings : result.warnings[i] = UnmetPreference}) = 1

\* ---- C14
\* the session operations that append an ActionRecord to the ActionLogger of
\* their BrowserManager (query_selector and keyboard.press append none)
LoggingOps == {"navigate", "click", "type", "screenshot"}

AppendsRecord(o) == o.op \in LoggingOps

\* the ActionRecords the session primitives appended during the running execute()
SessionRecords ==
    LET logging == SelectSeq(ops, AppendsRecord) IN
    [i \in DOMAIN logging |->
        Logged(<<"session", logging[i].sess>>, <<logging[i].op, logging[i].target>>,
               logging[i].ok)]

\* C14 (as stated): the actions field of the result execute() returns is the
\* full action log of the run; in particular it holds the ActionRecords that the
\* session primitives (navigate, click, type, screenshot) appended for the steps
\* of login and send.
C14_FullActionLog ==
    Returned =>
        /\ "actions" \in result.keys
        /\ Range(SessionRecords) \subseteq Range(result.actions)

\* ---- C15
\* C15 (as stated): in every execute() call on an agent, the second and later
\* ones included, every browser operation the provider adapter issues goes to
\* the session created in that same call (its id is the number of the call),
\* never to a session an earlier call created and stopped.
C15_OpsOnSessionOfThisCall ==
    \A i \in DOMAIN ops : ops[i].sess = runs

\* ---- C16
\* every statement of the call failed to do its work: no page is open, or the
\* page (or the file system) answered each with an error
NothingSucceeded ==
    \/ pr.page # "open"
    \/ \A i \in DOMAIN pr.outcomes : pr.outcomes[i] # "ok"

\* C16: navigate, click_element, type_text, wait_for_element, take_screenshot
\* and save_page_html never raise to their caller; whatever error the page
\* operation produces, also when no page is open, navigate / click / type / wait
\* return false and take_screenshot / save_page_html return null, and the call
\* appends one failed ActionRecord.
C16_PrimitivesNeverRaise ==
    /\ pr.state # "raised"
    /\ pr.state = "returned" =>
         /\ pr.raised = None
         /\ NothingSucceeded =>
              /\ pr.ret = (IF pr.kind \in {"take_screenshot", "save_page_html"}
                           THEN None ELSE "False")
              /\ Len(pr.records) = 1
              /\ ~pr.records[1].success
              /\ pr.records[1].details # None

\* take_screenshot with no page open returned null and logged the failure
C16_Witness ==
    /\ pr.state = "returned"
    /\ pr.kind = "take_screenshot"
    /\ pr.page = "none"
    /\ pr.ret = None
    /\ pr.records = <<ActionRecord("Take screenshot", "#a", FALSE, NoPageError)>>

\* ---- C17
HasAddress(w) == w.address # <<>>

\* the addresses in the words of the instruction, one per occurrence, in order
AddressesIn(words) ==
    LET with == SelectSeq(words, HasAddress) IN
    [i \in DOMAIN with |-> with[i].address]

\* C17: interpret_instruction never raises; when the model call fails or its
\* response is not valid JSON (or not a JSON object), it returns the fallback
\* task: recipients are the addresses the pattern matches in the instruction
\* and content is the whole instruction.
C17_InterpretNeverRaises ==
    /\ ip.state # "raised"
    /\ (ip.state = "returned" /\ ip.call = "interpret_instruction") =>
         /\ ip.raises = None
         /\ ip.returns # NoTask
         /\ ip.response.kind # "json" =>
              /\ ip.returns.recipients = AddressesIn(ip.words)
              /\ ip.returns.content = ip.instruction
              /\ ip.returns.task_type = "email"

\* the model call raised; the fallback found the two addresses of the instruction
C17_Witness ==
    /\ ip.state = "returned"
    /\ ip.call = "interpret_instruction"
    /\ ip.response.kind = "exception"
    /\ Len(ip.words) = 3
    /\ Len(ip.returns.recipients) = 2
    /\ ip.returns.recipients[1] # ip.returns.recipients[2]
    /\ ip.returns.content = ip.instruction

\* ---- C18
\* s without the repetitions of its elements: each at its first occurrence
RECURSIVE FirstOccurrences(_)
FirstOccurrences(s) ==
    IF s = <<>> THEN <<>>
    ELSE LET front == FirstOccurrences(SubSeq(s, 1, Len(s) - 1)) IN
         IF Last(s) \in Range(front) THEN front ELSE Append(front, Last(s))

\* C18 (as stated): for an instruction that contains addresses, the recipients
\* the fallback parser returns are exactly those addresses in order of first
\* appearance, an address that occurs several times being listed once.
C18_RecipientsOrderedSet ==
    (ip.state = "returned" /\ ip.call = "_fallback_parsing") =>
        ip.returns.recipients = FirstOccurrences(AddressesIn(ip.words))

\* ---- C19
\* the session started and every operation the adapter issued on it succeeded
AllPrimitivesSucceeded ==
    /\ thrown = None
    /\ "Executing" \in Range(phases)
    /\ \A i \in DOMAIN ops : ops[i].ok

\* the task execute() works on for the scenario's instruction: the one the
\* model call of the code yields (its canned response), or the fallback task
\* when the call fails
ScenarioTask ==
    task \in {_validate_task_info(MockResponse.object), _fallback_parsing(ScenarioInstruction)}

\* C19: with only Gmail configured and every session primitive succeeding,
\* execute("send email to alice@example.com saying 'Hello'") returns a result
\* with success = true, provider = "gmail" and task_type = "email".
C19_ScenarioSucceeds ==
    (Returned /\ avail = <<"gmail">> /\ ScenarioTask /\ AllPrimitivesSucceeded) =>
        /\ result.success
        /\ result.provider = "gmail"
        /\ result.task_type = "email"
        /\ {"success", "provider", "task_type"} \subseteq result.keys

\* the model call failed, the fallback task for alice@example.com was sent
C19_Witness ==
    /\ Returned
    /\ avail = <<"gmail">>
    /\ task = _fallback_parsing(ScenarioInstruction)
    /\ task.recipients = <<AliceAddress>>
    /\ AllPrimitivesSucceeded
    /\ \E i \in DOMAIN ops : ops[i].op = "click" /\ ops[i].target = "send_button"
    /\ result.success
    /\ result.provider = "gmail"

\* ---- C20
ResultFields == {"success", "provider", "task_type", "duration", "actions", "error", "warnings"}

\* C20 (as stated): every result execute() returns, on the success path, on each
\* early-failure path and on the exception path, has all the fields of the
\* result format: success, provider, task_type, duration, actions, error and
\* warnings.
C20_ResultHasAllFields ==
    Returned => ResultFields \subseteq result.keys

\* ---- C21
\* both calls of type_text returned true
TypedTwice == ck.state = "reentered" /\ ck.ret /\ ck.again.ret

\* C21: after type_text(selector, t1, fallbacks) and then type_text(selector,
\* t2, fallbacks), both returning true, the field the second call filled holds
\* exactly t2: not t1 followed by t2, and nothing of what it held before; a
\* second call with the same text leaves the field as the first call left it.
C21_TypeTextClearThenFill ==
    TypedTwice =>
        /\ ck.again.hit \in Selectors
        /\ ck.fields[ck.again.hit] = <<ck.again.text>>
        /\ ck.fields[ck.again.hit] # <<ck.text, ck.again.text>>
        /\ ck.hit # ck.again.hit => ck.fields[ck.hit] = <<ck.text>>

\* t1 and then t2 were typed into the same field, which held "old" before
C21_Witness ==
    /\ TypedTwice
    /\ ck.hit = ck.again.hit
    /\ ck.text = "t1"
    /\ ck.again.text = "t2"
    /\ ck.fields[ck.hit] = <<"t2">>

\* ---- C22
\* capture op was called for the step numbered step
CaptureMade(step, op) ==
    \E i \in DOMAIN pl.pageOps : pl.pageOps[i] = [step |-> step, op |-> op]

\* C22 (as stated): in execute_action_plan, for every step that failed (its
\* primitive returned false, or the step raised), take_screenshot is called with
\* the step's index iff screenshot_on_error is set and save_page_html is called
\* with the step's index iff save_html_on_error is set; for a step that
\* succeeded neither is called; in every case the plan goes on to the next step.
C22_CapturesOnFailedStep ==
    pl.state # "none" =>
        /\ Len(pl.executed) = pl.idx - 1
        /\ pl.state = "returned" => Len(pl.executed) = Len(pl.actions)
        /\ \A i \in DOMAIN pl.executed :
             IF pl.outcomes[i]
             THEN /\ ~CaptureMade(pl.executed[i], "take_screenshot")
                  /\ ~CaptureMade(pl.executed[i], "save_page_html")
             ELSE /\ CaptureMade(pl.executed[i], "take_screenshot") <=> screenshot_on_error
                  /\ CaptureMade(pl.executed[i], "save_page_html") <=> save_html_on_error

\* ---- C23
\* the operations send_email issued: those after the probe that ended login
SendTrace ==
    LET probes == {i \in DOMAIN ops : ops[i].op = "query"}
        k == IF probes = {} THEN 0 ELSE CHOOSE i \in probes : \A j \in probes : j <= i IN
    SubSeq(ops, k + 1, Len(ops))

\* C23: send_email accepts a task iff its recipients and its content are both
\* non-empty: called with empty recipients or empty content it returns the
\* failure result "Invalid task information" and issues no navigation, click,
\* type or key press on the session (nor a screenshot); called with both
\* non-empty it never returns that result.
C23_InvalidTaskNotSent ==
    sendInvoked =>
        /\ ~(task.recipients # <<>> /\ task.content # <<>>) =>
             /\ pc \in {"Cleanup", "Done"}
             /\ pending.success = FALSE
             /\ pending.error = "Invalid task information"
             /\ SendTrace = <<>>
        /\ (task.recipients # <<>> /\ task.content # <<>> /\ pc \in {"Cleanup", "Done"}) =>
             pending.error # "Invalid task information"

\* a task with a recipient and no content was refused after a successful login
C23_Witness ==
    /\ Returned
    /\ sendInvoked
    /\ task.recipients = <<DemoAddress>>
    /\ task.content = <<>>
    /\ loginRet = "True"
    /\ result.error = "Invalid task information"
    /\ SendTrace = <<>>

\* ---- C24
\* the first five (or fewer) words of the content, one blank between them
FirstWords ==
    LET w == ip.content_words IN
    join(SubSeq(w, 1, IF Len(w) < 5 THEN Len(w) ELSE 5))

IsPrefix(s, t) == Len(s) <= Len(t) /\ SubSeq(t, 1, Len(s)) = s

\* the results execute() has returned so far
Results == SelectSeq(lg.held, LAMBDA h : h.kind = "result")

\* C25: a result execute() returned is not changed by what is logged later: its
\* actions are, whenever the caller reads them, the sequence they were when
\* execute() returned it, whatever was appended to the log afterwards (the
\* "Browser cleanup completed" record of the same run, the records of a later
\* run) and also after the log was cleared.
C25_ResultNotMutated ==
    lg.state = "constructed" =>
        \A i \in DOMAIN Results :
            /\ Observed(Results[i].actions) = Results[i].returned
            /\ IsPrefix(Results[i].returned, Results[i].log)

\* two runs on one agent: the first result still has the three records it was
\* returned with, after its cleanup record and the second run's were logged
C25_Witness ==
    /\ lg.state = "constructed"
    /\ Len(Results) = 2
    /\ Results[1].success
    /\ Len(Observed(Results[1].actions)) = 3
    /\ Len(lg.log) = 8

\* ---- C26
\* C26: the action log is append-only and is emptied only by an explicit
\* reset: every call (log_action, log_step, log_warning, log_error,
\* log_success, get_actions, execute) leaves the records the log held in place
\* and unchanged and adds new ones at the end only, and a log that loses
\* records was emptied by clear_actions / clear_action_log; so the actions of
\* the result of an execute() begin with the records the log held when the
\* call began (those of an earlier run, unless the log was reset in between).
C26_LogAppendOnly ==
    [][ lg.state = "constructed" =>
          /\ \/ IsPrefix(lg.log, lg'.log)
             \/ lg'.last \in {"clear_actions", "clear_action_log"} /\ lg'.log = <<>>
          /\ lg'.last \in {"log_step", "log_warning", "log_error", "log_success",
                            "get_actions", "get_action_log"} => lg'.log = lg.log
          /\ \A i \in DOMAIN lg'.held :
               lg'.held[i].kind = "result" =>
                   /\ IsPrefix(lg'.held[i].before, lg'.held[i].returned)
                   /\ IsPrefix(lg'.held[i].returned, lg'.held[i].log) ]_vars

\* the result of a second execute() holds the four records of the first run
\* and then its own three
C26_Witness ==
    /\ lg.state = "constructed"
    /\ Len(Results) = 2
    /\ Len(Results[2].before) = 4
    /\ Len(Results[2].returned) = 7
    /\ SubSeq(Results[2].returned, 1, 4) = Results[2].before
    /\ lg.held[1].kind = "result" /\ lg.held[2].kind = "result"

\* ---- C27
\* the messages of the two early failures of execute()
EarlyFailures == {"Failed to interpret instruction", "No suitable provider available"}

IsErrorResult(r, m) ==
    /\ r.success = FALSE
    /\ r.error = m
    /\ r.duration = 0
    /\ \E i \in DOMAIN r.warnings : r.warnings[i] = m
    /\ {"success", "error", "duration", "warnings"} \subseteq r.keys

\* C27: _create_error_result(m) is, for every message m, a result with success
\* = false, error = m, duration = 0 and m among its warnings; and execute()
\* returns that result when the run ends before a provider was selected: for
\* "Failed to interpret instruction" when no task was interpreted, for "No
\* suitable provider available" when a task was but no provider was selected.
C27_ErrorResult ==
    /\ \A m \in EarlyFailures \cup {"Failed to navigate to service", UnmetPreference} :
         IsErrorResult(_create_error_result(m), m)
    /\ (Returned /\ task = NoTask) =>
         IsErrorResult(result, "Failed to interpret instruction")
    /\ (Returned /\ task # NoTask /\ provider = None) =>
         IsErrorResult(result, "No suitable provider available")

\* only outlook is configured and the task asks for a provider that does not
\* exist: the run ended with the error result of provider selection
C27_Witness ==
    /\ Returned
    /\ avail = <<"outlook">>
    /\ task # NoTask
    /\ task.provider_preference = "yahoo"
    /\ provider = None
    /\ result.duration = 0
    /\ result.warnings = <<"No suitable provider available">>

\* ---- C28
\* the sum of the lengths of the elements of a list
RECURSIVE TotalLen(_)
TotalLen(list) == IF list = <<>> THEN 0 ELSE Len(list[1]) + TotalLen(Tail(list))

\* "a@x.io, demo@example.com"
TwoRecipients ==
    <<"a", "@", "x", ".", "i", "o", ",", " ", "d", "e", "m", "o", "@", "e", "x", "a", "m", "p", "l", "e", ".", "c", "o", "m">>

\* C28: _format_recipients gives, for a list of recipients, its elements in
\* list order joined by ", " (so the text holds the addresses of the list, in
\* order and as often as listed, and two characters between neighbours:
\* ["a@x.io", "demo@example.com"] gives "a@x.io, demo@example.com"), and for a
\* recipients value that is a string that string unchanged.
C28_RecipientFormatting ==
    (ip.state = "returned" /\ ip.call = "_format_recipients") =>
        IF "text" \in DOMAIN ip.recipients
        THEN ip.returns = ip.recipients.text
        ELSE LET list == ip.recipients.list IN
             /\ findall(ip.returns, 1) = list
             /\ Len(ip.returns) = TotalLen(list) + 2 * (IF list = <<>> THEN 0 ELSE Len(list) - 1)
             /\ \A i \in 1..(Len(ip.returns) - 1) :
                  ip.returns[i] = "," => ip.returns[i + 1] = " "
             /\ list = <<<<"a", "@", "x", ".", "i", "o">>, DemoAddress>> =>
                  ip.returns = TwoRecipients

\* the list of a@x.io and demo@example.com was formatted
C28_Witness ==
    /\ ip.state = "returned"
    /\ ip.call = "_format_recipients"
    /\ "list" \in DOMAIN ip.recipients
    /\ ip.recipients.list = <<<<"a", "@", "x", ".", "i", "o">>, DemoAddress>>
    /\ ip.returns = TwoRecipients

\* ---- C29
\* the operations login() issued: all of them while login runs or after it
\* returned false, and those up to its last probe after it returned true
LoginTrace == SubSeq(ops, 1, Len(ops) - Len(SendTrace))

IsProbe(o) == o.op = "query" /\ o.target = "compose_button"

IsCredentialOp(o) == o.op \in {"type", "click"}

\* C29: login is detected by the probe for the compose button: when the probe
\* that follows the navigation finds it, login returns true having issued the
\* navigation and the probe only (no email, no password, no click); and login
\* returns true in no other way than on a probe that found the compose button,
\* so after the credential steps only if the second probe finds it.
C29_LoginByComposeProbe ==
    LET lt == IF loginRet = "True" THEN LoginTrace ELSE ops IN
    /\ loginRet = "True" =>
         /\ lt # <<>>
         /\ IsProbe(Last(lt)) /\ Last(lt).ok
    /\ (Len(lt) >= 2 /\ IsProbe(lt[2]) /\ lt[2].ok) =>
         /\ loginRet = "True"
         /\ Len(lt) = 2
         /\ lt[1].op = "navigate" /\ lt[1].ok
    /\ \A i \in DOMAIN lt :
         IsProbe(lt[i]) =>
            /\ i >= 2
            /\ i = 2 \/ (\E j \in 1..(i - 1) : IsCredentialOp(lt[j]))
            /\ (i > 2 /\ ~lt[i].ok) => loginRet = "False"

\* the first probe found nothing, the credentials were entered, and the second
\* probe found the compose button
C29_Witness ==
    /\ loginRet = "True"
    /\ apc = "send_validate"
    /\ Len(ops) >= 7
    /\ IsProbe(ops[2]) /\ ~ops[2].ok
    /\ IsProbe(Last(ops)) /\ Last(ops).ok

\* ---- C30
\* the credential steps in the order the claim gives them
CredentialOrder(p) ==
    IF p = "gmail"
    THEN << [op |-> "type", target |-> "email_field"],
            [op |-> "click", target |-> "email_next"],
            [op |-> "type", target |-> "password_field"],
            [op |-> "click", target |-> "password_next"] >>
    ELSE << [op |-> "type", target |-> "email_field"],
            [op |-> "click", target |-> "next_button"],
            [op |-> "type", target |-> "password_field"],
            [op |-> "click", target |-> "submit_button"] >>

IsRequiredStep(o) == IsCredentialOp(o) /\ o.target # "stay_signed_in"

\* the credential steps login() has issued, in order
CredentialTrace ==
    SelectSeq(IF loginRet = "True" THEN LoginTrace ELSE ops, IsRequiredStep)

\* C30: the credential login issues type email, click next, type password,
\* click next (Gmail) / type email, click next/submit, type password, click submit
\* (Outlook) in that order, and nothing after a step that failed: login
\* returned false there; so the password is typed only after the email was
\* typed and its click succeeded; and when the navigation to the service
\* fails, login returns false and nothing is typed.
C30_CredentialStepsInOrder ==
    provider # None =>
        LET tr == CredentialTrace
            n == Len(tr) IN
        /\ n <= 4
        /\ \A i \in 1..n :
             [op |-> tr[i].op, target |-> tr[i].target] = CredentialOrder(provider)[i]
        /\ \A i \in 1..(n - 1) : tr[i].ok
        /\ (n >= 1 /\ ~tr[n].ok) => loginRet = "False"
        /\ (ops # <<>> /\ ~ops[1].ok) =>
             /\ ops[1].op = "navigate"
             /\ loginRet = "False"
             /\ n = 0

\* Outlook: the password could not be typed, after the email and its click
C30_Witness ==
    /\ provider = "outlook"
    /\ loginRet = "False"
    /\ Len(CredentialTrace) = 3
    /\ ~CredentialTrace[3].ok
    /\ CredentialTrace[3].target = "password_field"
    /\ Returned

\* ---- C31
\* C31: wait_for_element waits for the configured max_wait_time when no timeout
\* is passed, and for the timeout passed, whatever its value (0 included),
\* otherwise; in milliseconds.
C31_TimeoutAsPassed ==
    (pr.kind = "wait_for_element" /\ pr.state = "returned" /\ pr.waited_ms.given) =>
        pr.waited_ms.value =
            IF pr.timeout.given THEN pr.timeout.value * 1000
            ELSE pr.max_wait_time * 1000

\* ---- C32
\* the texts a returned send_email typed into the subject field
SubjectsTyped ==
    LET typed == SelectSeq(sd.ret.ops, LAMBDA o : o.op = "type" /\ o.target = "subject_field") IN
    { typed[i].text : i \in DOMAIN typed }

\* C32: send_email never types an empty subject: it types the subject of the
\* task when the task has a non-empty one and the default "Message from
\* automation system" otherwise (no subject key, or an empty subject).
C32_SubjectNeverEmpty ==
    sd.state = "returned" =>
        \A text \in SubjectsTyped :
            /\ text # <<>>
            /\ text = IF "subject" \in DOMAIN sd.task_info /\ sd.task_info.subject # <<>>
                      THEN sd.task_info.subject
                      ELSE DefaultSubject

\* ---- C33
\* C33: main exits with code 0 on success and with code 1 on a validation
\* failure or an uncaught error; a run whose result has success = false does
\* not exit with code 0.
C33_ExitCode ==
    cli.state = "exited" =>
        /\ cli.exit_code \in {0, 1}
        /\ cli.exit_code = 0 <=>
              /\ validate_environment(cli.openai_api_key)
              /\ cli.outcome.kind = "returns"
              /\ cli.outcome.result.success

\* ---- C34
IsDismiss(o) == o.op = "click" /\ o.target = "stay_signed_in"

\* C34: in the Outlook login the click that dismisses "stay signed in" is
\* optional: it follows the successful submit of the password, and whether it
\* succeeds or fails the compose-button probe comes next and alone decides
\* what login returns.
C34_DismissIsOptional ==
    \A i \in DOMAIN ops :
        IsDismiss(ops[i]) =>
            /\ provider = "outlook"
            /\ i > 1 /\ ops[i - 1].target = "submit_button" /\ ops[i - 1].ok
            /\ Len(ops) > i => IsProbe(ops[i + 1])
            /\ loginRet # None =>
                 /\ Len(ops) > i
                 /\ loginRet = IF ops[i + 1].ok THEN "True" ELSE "False"

\* the prompt did not appear (the click failed) and login returned true
C34_Witness ==
    /\ loginRet = "True"
    /\ \E i \in DOMAIN ops : IsDismiss(ops[i]) /\ ~ops[i].ok

\* ---- C35
\* a session is live while one of its handles is open
Live(s) == \E h \in HandleNames : s[h] \in {"open", "close_raised"}

\* C35: when two execute() calls on one agent overlap, at most one session is
\* live at any time, and once both calls have returned every BrowserManager
\* that was started has been stopped exactly once; no call operates on or
\* stops the session of the other.
C35_OverlapKeepsSessions ==
    /\ Cardinality({c \in Calls : Live(ov.bm[c])}) <= 1
    /\ \A c \in Calls :
         /\ ov.used[c] \subseteq {c}
         /\ Range(ov.stopped[c]) \subseteq {c}
    /\ (\A c \in Calls : ov.at[c] = "returned") =>
         \A c \in Calls : ov.bm[c].constructed => ov.bm[c].stops = 1

\* ---- C36
\* the running (or finished) execute() is past provider selection with a
\* preference that names no provider
UnknownPreference ==
    /\ pc \in {"SessionStarting", "Executing", "Cleanup", "Done"}
    /\ "SelectingProvider" \in Range(phases)
    /\ task.provider_preference \notin {"auto", "gmail", "outlook"}

\* C36: with a provider preference other than "auto", "gmail" and "outlook",
\* _select_provider returns no provider whatever providers are configured:
\* execute() returns success = false with error "No suitable provider
\* available" and the run neither constructs nor starts a session.
C36_UnknownPreferenceNoProvider ==
    UnknownPreference =>
        /\ provider = None
        /\ pc \in {"Cleanup", "Done"}
        /\ ~RunSession.constructed
        /\ browser_manager = NoSession
        /\ "SessionStarting" \notin Range(phases)
        /\ ops = <<>>
        /\ Returned =>
             /\ result.success = FALSE
             /\ result.error = "No suitable provider available"

\* both providers are configured and the preference is unknown
C36_Witness ==
    /\ Returned
    /\ UnknownPreference
    /\ avail = <<"gmail", "outlook">>
    /\ result.error = "No suitable provider available"

\* ---- C37
\* the steps among the first n executed that did not raise, in order
RECURSIVE CompletedSteps(_)
CompletedSteps(n) ==
    IF n = 0 THEN <<>>
    ELSE CompletedSteps(n - 1)
         \o (IF StepRaises(pl.actions[n]) THEN <<>> ELSE <<pl.executed[n]>>)

ActionNames == {"navigate", "click", "type", "wait", "verify"}

\* C37: a step of execute_action_plan whose action is none of navigate, click,
\* type, wait, verify calls no primitive on the page (the only calls made for
\* it are the captures of a failed step) and is recorded as failed: success =
\* false in its action entry, overall success false, one error entry; and the
\* result's actions hold exactly one entry for every step that did not raise,
\* in plan order.
C37_UnknownActionFails ==
    pl.state # "none" =>
        /\ \A i \in DOMAIN pl.executed :
             pl.actions[i].action \notin ActionNames =>
                /\ ~pl.outcomes[i]
                /\ ~pl.results.success
                /\ \A j \in DOMAIN pl.pageOps :
                     pl.pageOps[j].step = pl.executed[i] =>
                        pl.pageOps[j].op \in {"take_screenshot", "save_page_html"}
                /\ \E j \in DOMAIN pl.results.actions :
                     /\ pl.results.actions[j].step = pl.executed[i]
                     /\ pl.results.actions[j].action = pl.actions[i].action
                     /\ ~pl.results.actions[j].success
                /\ Cardinality({j \in DOMAIN pl.results.errors :
                                  pl.results.errors[j].step = pl.executed[i]}) = 1
        /\ [j \in DOMAIN pl.results.actions |-> pl.results.actions[j].step]
             = CompletedSteps(Len(pl.executed))

\* a plan with an unknown action and a step that raised has returned
C37_Witness ==
    /\ pl.state = "returned"
    /\ \E i \in DOMAIN pl.actions : pl.actions[i].action \notin ActionNames
    /\ \E i \in DOMAIN pl.actions : StepRaises(pl.actions[i])
    /\ Len(pl.results.actions) = Len(pl.actions) - 1
    /\ Len(pl.actions) >= 3

\* ---- C38
IsPlanStep(o) == o.op = "plan_step"

DomReturned == pc = "DomDone"

\* C38: in execute_with_dom_analysis a session that was constructed has been
\* stopped exactly once, and is held no more, when the call returns; a plan
\* step is executed only after the navigation to the service succeeded; and
\* a failed navigation or an exception (or no task, no provider) gives a
\* result with success = false and no plan step executed.
C38_DomAnalysisLifecycle ==
    /\ DomReturned =>
         /\ browser_manager = NoSession
         /\ stopCalls = IF RunSession.constructed THEN 1 ELSE 0
         /\ RunSession.constructed => RunSession.stops = 1
    /\ \A i \in DOMAIN ops :
         IsPlanStep(ops[i]) =>
            /\ i > 1
            /\ ops[1].op = "navigate" /\ ops[1].ok
            /\ ops[i].sess = runs
    /\ (pc \in {"DomCleanup", "DomDone"}
          /\ \/ thrown # None
             \/ task = NoTask
             \/ provider = None
             \/ (ops # <<>> /\ ~ops[1].ok)) =>
         /\ pending.success = FALSE
         /\ DomReturned => result.success = FALSE
         /\ \A i \in DOMAIN ops : ~IsPlanStep(ops[i])

\* the default plan was executed after a successful navigation, and the
\* session was stopped
C38_Witness ==
    /\ DomReturned
    /\ Len(ops) = 1 + Len(DefaultActionPlan)
    /\ ops[1].ok
    /\ IsPlanStep(ops[2])
    /\ RunSession.stops = 1
    /\ result.success

\* ---- C39
\* both the email and the password of p are set and non-empty
HasCredentials(c, p) ==
    \/ p = "gmail" /\ c.gmail_email = "set" /\ c.gmail_password = "set"
    \/ p = "outlook" /\ c.outlook_email = "set" /\ c.outlook_password = "set"

\* C39: get_available_providers lists, in the order gmail, outlook, exactly
\* the providers whose email and password are both set and non-empty;
\* is_provider_configured(p) is true iff p is in that list; GenericUIAgent
\* (config) raises ValueError iff the API key is missing or no provider is
\* available, so an agent exists only on a config with a provider.
C39_AgentNeedsProvider ==
    cf.state # "none" =>
        /\ cf.asked =>
             /\ cf.providers \in {<<>>, <<"gmail">>, <<"outlook">>, <<"gmail", "outlook">>}
             /\ \A p \in ProviderNames :
                  /\ (\E i \in DOMAIN cf.providers : cf.providers[i] = p)
                        <=> HasCredentials(cf.config, p)
                  /\ cf.configured[p] <=> (\E i \in DOMAIN cf.providers : cf.providers[i] = p)
        /\ cf.agent = "raised" <=>
             (cf.agent # "none"
              /\ (cf.config.openai_api_key # "set"
                  \/ \A p \in ProviderNames : ~HasCredentials(cf.config, p)))
        /\ cf.agent = "raised" => cf.error # "None"
        /\ cf.agent = "exists" => \E p \in ProviderNames : HasCredentials(cf.config, p)

\* the constructor raised on a config that has the API key and a Gmail
\* address but an empty Gmail password, and the queries named no provider
C39_Witness ==
    /\ cf.state # "none"
    /\ cf.agent = "raised"
    /\ cf.asked
    /\ cf.providers = <<>>
    /\ cf.config.openai_api_key = "set"
    /\ cf.config.gmail_email = "set"
    /\ cf.config.gmail_password = ""

\* ---- C40
\* the number of attempts the caller asked for
RequestedRetries ==
    IF rt.argument.given THEN rt.argument.value ELSE rt.retry_attempts

\* C40: _retry_action invokes f at most max_retries times (retry_attempts
\* when max_retries is omitted); only the last invocation can be truthy and
\* the call then returned true; after failed attempt k it has slept 2^k
\* seconds unless k was the last attempt; it returns false only when all
\* the attempts failed.
C40_RetryWithinMaxRetries ==
    rt.state # "none" =>
        /\ Len(rt.invoked) <= RequestedRetries
        /\ \A i \in DOMAIN rt.invoked :
             rt.invoked[i] = "truthy" => (i = Len(rt.invoked) /\ rt.returned = "True")
        /\ rt.returned = "True" =>
             (rt.invoked # <<>> /\ rt.invoked[Len(rt.invoked)] = "truthy")
        /\ rt.returned = "False" =>
             (Len(rt.invoked) = RequestedRetries
              /\ \A i \in DOMAIN rt.invoked : rt.invoked[i] # "truthy")
        /\ \A k \in 0..(MaxRetries + 1) :
             (k < Len(rt.invoked) /\ rt.invoked[k + 1] # "truthy"
                /\ k < RequestedRetries - 1) =>
                (Len(rt.slept) > k /\ rt.slept[k + 1] = Pow2(k))
        /\ Len(rt.slept) <= IF RequestedRetries = 0 THEN 0 ELSE RequestedRetries - 1

====
